---- MODULE Spec2Model ----
(***************************************************************************)
(* Articulate blogging backend: the engagement pipeline.                   *)
(*   - reaction toggles (like_usecase.go, like_repo.go)                    *)
(*   - fraud-aware view tracking (blog_usecase.go, blog_repo.go)           *)
(*   - cache-aside reads and invalidation (blog_usecase.go, cache store)   *)
(* Every durable-store or cache call of a handler is one step of the       *)
(* request task that runs it; request tasks interleave at those steps.     *)
(***************************************************************************)
EXTENDS Integers, Sequences, FiniteSets, TLC

\* ---------------------------------------------------------------- bounds
NumProcs == 2
NumUsers == 2
\* Requests issued in a run of concurrent request tasks.
MaxCalls == 2
\* Requests issued in a run of one request task.
MaxSeqCalls == 4

\* steps of the clock in the velocity runs
MaxVelocityTicks == 4
\* calls and clock steps of the dedup / rotation runs
MaxViewCalls == 7
MaxViewTicks == 1

\* blogs, calls and clock steps of the read-cache runs
MaxBlogs == 1
MaxCacheCalls == 4
MaxCacheTicks == 1
MaxFaultCalls == 3
\* Recency runs: view requests of one client and half-window clock ticks.
MaxRecencyCalls == 3
MaxRecencyTicks == 3
\* List runs: blog creations and list requests of any page and page size.
MaxListCalls == 3
\* Store-failure runs: requests issued one at a time, each with one failing call.
MaxStoreFaultCalls == 2
\* Mixed traffic: requests of all kinds issued to two request tasks.
MaxMixedCalls == 2
\* blog reads and writes issued in a run of concurrent reads and writes
MaxRaceCalls == 3

Procs == 1..NumProcs
Users == 1..NumUsers

TargetTypeBlog == "blog"
LIKE_TYPE_LIKE == "like"
LIKE_TYPE_DISLIKE == "dislike"

VARIABLES
    blogs,      \* blogs collection: blog id -> document
    likes,      \* blog_likes collection: set of reaction documents
    nextUUID,   \* source of fresh uuids (uuid.New)
    pc,         \* request task -> position in its handler
    loc,        \* request task -> local variables of its handler
    ret,        \* request task -> what its last finished call returned
    reaction,   \* request task -> what its last GetUserReaction call returned
    toggles,    \* history: the ToggleLike/ToggleDislike calls in the order they began
    callsLeft,  \* requests still to be issued; Unbounded when the run has no budget
    views,      \* blog_views collection: set of view documents
    now,        \* the clock, in seconds
    ipSets,     \* cache: ip -> the set blog:recentviews:ip:<ip> and its expiry
    userSets,   \* cache: user -> the set blog:recentviews:user:<id> and its expiry
    shadow,     \* the same deployment run with a cache whose every call errors
    viewLog,    \* history: the TrackBlogView calls and how each ended
    detail,     \* cache: slug -> cached blog document (blog:slug:<slug>)
    lists,      \* cache: list key -> cached page (blogs:list:...)
    lastOp      \* history: the last blog read or write and the one before it

likeVars == <<likes, nextUUID, toggles>>
taskVars == <<pc, loc, ret, callsLeft, reaction>>
viewVars == <<views, now, ipSets, userSets, shadow, viewLog>>
cacheVars == <<detail, lists, lastOp>>
vars == <<blogs, likeVars, taskVars, viewVars, cacheVars>>

Unbounded == 0 - 1

\* ------------------------------------------------------ PopularityScorer
\* utils.CalculatePopularity: a weighted, monotone combination of the counters.
CalculatePopularity(viewCnt, likeCnt, dislikeCnt, comments) ==
    viewCnt + 3 * likeCnt - 2 * dislikeCnt + 2 * comments

\* ------------------------------------------------------------ documents
\* A slug: the slugified title and the uuid appended to it.
NoSlug == [base |-> <<>>, uuid |-> 0]

BlogStatusPublished == "published"
BlogStatusDraft == "draft"
BlogStatusArchived == "archived"

NoBlog ==
    [present |-> FALSE, isDeleted |-> FALSE, viewCount |-> 0, likeCount |-> 0,
     dislikeCount |-> 0, commentCount |-> 0, popularity |-> 0,
     title |-> <<>>, slug |-> NoSlug, status |-> BlogStatusPublished, author |-> 1]

\* The entity.Blog literal of CreateBlog: all counters 0.
NewBlog ==
    [present |-> TRUE, isDeleted |-> FALSE, viewCount |-> 0, likeCount |-> 0,
     dislikeCount |-> 0, commentCount |-> 0,
     popularity |-> CalculatePopularity(0, 0, 0, 0),
     title |-> <<>>, slug |-> NoSlug, status |-> BlogStatusPublished, author |-> 1]

\* Filter {"_id": blogID, "is_deleted": false} of the blog repository.
BlogMatches(B, b) == b \in DOMAIN B /\ B[b].present /\ ~B[b].isDeleted

\* A lookup by id alone, which finds soft-deleted documents too.
GetBlogByIDWithDeleted(B, b) ==
    IF b \in DOMAIN B /\ B[b].present THEN [err |-> FALSE, blog |-> B[b]]
    ELSE [err |-> TRUE, blog |-> NoBlog]

\* BlogRepository.GetBlogByID: the document, or an error when none matches.
GetBlogByID(B, b) ==
    IF BlogMatches(B, b) THEN [err |-> FALSE, blog |-> B[b]]
    ELSE [err |-> TRUE, blog |-> NoBlog]

\* BlogRepository.UpdateBlog: $set of the given fields on the matching document.
UpdateBlogRepo(B, b, updates) ==
    IF BlogMatches(B, b)
    THEN [err |-> FALSE,
          blogs |-> [B EXCEPT ![b] =
                       [f \in DOMAIN B[b] |->
                          IF f \in DOMAIN updates THEN updates[f] ELSE B[b][f]]]]
    ELSE [err |-> TRUE, blogs |-> B]

\* BlogRepository.CreateBlog: InsertOne of the document under its id.
CreateBlogRepo(B, b, blog) == [B EXCEPT ![b] = blog]

\* BlogRepository.GetBlogBySlug: filter {"slug": slug, "is_deleted": false}.
GetBlogBySlug(B, slug) ==
    LET ids == {b \in DOMAIN B : B[b].present /\ ~B[b].isDeleted /\ B[b].slug = slug}
    IN  IF ids = {} THEN [err |-> TRUE, blog |-> NoBlog]
        ELSE [err |-> FALSE, blog |-> B[CHOOSE b \in ids : TRUE]]

\* BlogRepository.DeleteBlog: $set is_deleted on the matching document.
DeleteBlogRepo(B, b) ==
    IF BlogMatches(B, b)
    THEN [err |-> FALSE, blogs |-> [B EXCEPT ![b].isDeleted = TRUE]]
    ELSE [err |-> TRUE, blogs |-> B]

\* BlogRepository.GetBlogs with only the paging options set: the documents
\* that are not deleted, and their number.
GetBlogsRepo(B) ==
    LET ids == {b \in DOMAIN B : B[b].present /\ ~B[b].isDeleted}
    IN  [blogs |-> {<<b, B[b]>> : b \in ids}, total |-> Cardinality(ids)]

\* ------------------------------------------------------- LikeRepository
NoReaction == [id |-> 0, user |-> 0, target |-> 0, ttype |-> "", type |-> "", deleted |-> TRUE]

ActiveRows(L, u, t) == {r \in L : r.user = u /\ r.target = t /\ ~r.deleted}

\* Errors are values: a sentinel made by errors.New is identified by the
\* package variable that holds it, and carries its text; an error made by
\* fmt.Errorf with %w carries the error it wraps.
NoErr == [pkg |-> "", msg |-> "", wraps |-> <<>>]

ErrorsNew(pkg, msg) == [pkg |-> pkg, msg |-> msg, wraps |-> <<>>]

Errorf(msg, err) == [pkg |-> "fmt", msg |-> msg, wraps |-> <<err.pkg, err.msg>>]

\* err.Error()
ErrorText(err) == IF err.wraps = <<>> THEN err.msg ELSE err.wraps[2]

\* errors.Is: err is the target value, or wraps it.
ErrorsIs(err, target) ==
    \/ err = target
    \/ err.wraps = <<target.pkg, target.msg>>

\* var ErrReactionNotFound of package mongodb, returned by the repository.
RepoErrReactionNotFound == ErrorsNew("mongodb", "reaction not found")

\* var ErrReactionNotFound of package usecase, which the use cases compare with.
ErrReactionNotFound == ErrorsNew("usecase", "reaction not found")

\* The error of GetReactionByUserIDAndTargetID: mongo.ErrNoDocuments becomes
\* the repository's ErrReactionNotFound.
GetReactionErr(L, u, t) ==
    IF {r \in L : r.user = u /\ r.target = t /\ ~r.deleted} = {}
    THEN RepoErrReactionNotFound ELSE NoErr

\* GetReactionByUserIDAndTargetID: FindOne over the active rows of (user, target).
GetReactionByUserIDAndTargetID(L, u, t) ==
    IF ActiveRows(L, u, t) = {} THEN NoReaction
    ELSE CHOOSE r \in ActiveRows(L, u, t) : TRUE

UpsertMatches(L, like) ==
    {r \in L : r.user = like.user /\ r.target = like.target /\ r.ttype = like.ttype}

\* A reaction write that retypes the matched document but leaves is_deleted alone.
CreateReactionKeepDeleted(L, like, uuid) ==
    IF {r \in L : r.user = like.user /\ r.target = like.target /\ r.ttype = like.ttype} = {}
    THEN L \cup {[id |-> uuid, user |-> like.user, target |-> like.target,
                  ttype |-> like.ttype, type |-> like.type, deleted |-> FALSE]}
    ELSE {IF r.user = like.user /\ r.target = like.target /\ r.ttype = like.ttype
          THEN [r EXCEPT !.type = like.type] ELSE r : r \in L}

\* A reaction write that always inserts a new document.
CreateReactionInsertOnly(L, like, uuid) ==
    L \cup {[id |-> uuid, user |-> like.user, target |-> like.target,
             ttype |-> like.ttype, type |-> like.type, deleted |-> FALSE]}

\* CreateReaction: UpdateOne with upsert on (user_id, target_id, target_type);
\* $set type and is_deleted=false, $setOnInsert a fresh _id.
CreateReaction(L, like, uuid) ==
    IF UpsertMatches(L, like) = {}
    THEN L \cup {[id |-> uuid, user |-> like.user, target |-> like.target,
                  ttype |-> like.ttype, type |-> like.type, deleted |-> FALSE]}
    ELSE LET r == CHOOSE x \in UpsertMatches(L, like) : TRUE
         IN (L \ {r}) \cup {[r EXCEPT !.type = like.type, !.deleted = FALSE]}

\* DeleteReaction: soft delete by _id among the active rows;
\* ModifiedCount = 0 is answered with ErrReactionNotFound.
DeleteReaction(L, id) ==
    IF \E r \in L : r.id = id /\ ~r.deleted
    THEN [err |-> FALSE,
          likes |-> {IF r.id = id /\ ~r.deleted THEN [r EXCEPT !.deleted = TRUE] ELSE r : r \in L}]
    ELSE [err |-> TRUE, likes |-> L]

\* A like count that forgets the is_deleted filter.
CountLikesWithDeleted(L, t) ==
    Cardinality({r \in L : r.target = t /\ r.type = LIKE_TYPE_LIKE})

CountLikesByTargetID(L, t) ==
    Cardinality({r \in L : r.target = t /\ r.type = LIKE_TYPE_LIKE /\ ~r.deleted})

CountDislikesByTargetID(L, t) ==
    Cardinality({r \in L : r.target = t /\ r.type = LIKE_TYPE_DISLIKE /\ ~r.deleted})

\* ----------------------------------------------- view tracking: cache
NoUserID == 0

\* A Redis set key: its members and the time at which it expires.
EmptyKey == [members |-> {}, exp |-> 0]

\* The members of key k at time t: an expired key is gone.
LiveMembers(S, k, t) == IF t < S[k].exp THEN S[k].members ELSE {}

\* SADD with an expiry that is set only when the key is new.
SAddExpireOnce(S, k, member, ttl, t) ==
    [S EXCEPT ![k] = [members |-> LiveMembers(S, k, t) \cup {member},
                      exp |-> IF t < S[k].exp THEN S[k].exp ELSE t + ttl]]

\* SADD key member, then EXPIRE key ttl: the expiry of the whole set is reset.
SAddExpire(S, k, member, ttl, t) ==
    [S EXCEPT ![k] = [members |-> LiveMembers(S, k, t) \cup {member}, exp |-> t + ttl]]

\* AddRecentViewByIP; with a failing client SADD errors and nothing is stored.
AddRecentViewByIP(S, cacheOK, ip, blogID, ttlSeconds, t) ==
    IF cacheOK THEN SAddExpire(S, ip, blogID, ttlSeconds, t) ELSE S

\* GetRecentViewCountByIP: SCARD of the IP's set.
GetRecentViewCountByIP(S, cacheOK, ip, t) ==
    [err |-> ~cacheOK, n |-> IF cacheOK THEN Cardinality(LiveMembers(S, ip, t)) ELSE 0]

\* AddRecentViewByUser
AddRecentViewByUser(S, cacheOK, userID, ip, ttlSeconds, t) ==
    IF cacheOK THEN SAddExpire(S, userID, ip, ttlSeconds, t) ELSE S

\* GetRecentIPCountByUser: SCARD of the user's set.
GetRecentIPCountByUser(S, cacheOK, userID, t) ==
    [err |-> ~cacheOK, n |-> IF cacheOK THEN Cardinality(LiveMembers(S, userID, t)) ELSE 0]

\* ------------------------------------------ view tracking: repository
\* A dedup query that forgets the user_id alternative of the $or.
HasViewedRecentlyIPOnly(V, blogID, userID, ip) ==
    \E v \in V : v.blog = blogID /\ v.ip = ip

\* HasViewedRecently: a view document of this blog with this ip, or with this
\* user id when there is one. The filter has no viewed_at bound.
HasViewedRecently(V, blogID, userID, ip) ==
    \E v \in V : v.blog = blogID /\ (v.ip = ip \/ (userID # NoUserID /\ v.user = userID))

\* An insert that stores the view document twice.
RecordViewTwice(V, blogID, userID, ip, t) ==
    V \cup {[id |-> Cardinality(V) + n, blog |-> blogID, user |-> userID, ip |-> ip, at |-> t] :
              n \in {1, 2}}

\* RecordView: InsertOne of a view document stamped time.Now().
RecordView(V, blogID, userID, ip, t) ==
    V \cup {[id |-> Cardinality(V) + 1, blog |-> blogID, user |-> userID, ip |-> ip, at |-> t]}

GetRecentViewsByIP(V, ip, since) == {v \in V : v.ip = ip /\ v.at >= since}

GetRecentViewsByUser(V, userID, since) ==
    IF userID = NoUserID THEN {} ELSE {v \in V : v.user = userID /\ v.at >= since}

\* A write of the view count that stores 1 instead of adding 1.
IncrementViewCountSetsOne(B, b) ==
    IF BlogMatches(B, b)
    THEN [err |-> FALSE, blogs |-> [B EXCEPT ![b].viewCount = 1]]
    ELSE [err |-> TRUE, blogs |-> B]

\* IncrementViewCount: $inc view_count; ModifiedCount = 0 is "blog post not found".
IncrementViewCount(B, b) ==
    IF BlogMatches(B, b)
    THEN [err |-> FALSE, blogs |-> [B EXCEPT ![b].viewCount = @ + 1]]
    ELSE [err |-> TRUE, blogs |-> B]

\* UpdateBlogPopularity: GetBlogCounts, CalculatePopularity, UpdateBlog; an
\* error leaves the document as it is. fault names the store call that
\* fails: "counts" (GetBlogCounts), "popularity" (UpdateBlog) or neither.
UpdateBlogPopularity(B, b, fault) ==
    IF fault = "counts" \/ ~BlogMatches(B, b) THEN [err |-> TRUE, blogs |-> B]
    ELSE IF fault = "popularity" THEN [err |-> TRUE, blogs |-> B]
    ELSE UpdateBlogRepo(B, b,
            [popularity |-> CalculatePopularity(B[b].viewCount, B[b].likeCount,
                                                B[b].dislikeCount, B[b].commentCount)])

\* ---------------------------------------------- view tracking: use case
\* User agents are strings, here sequences of characters.
ToLowerChar(c) ==
    CASE c = "B" -> "b" [] c = "G" -> "g" [] c = "M" -> "m" [] c = "O" -> "o"
      [] c = "T" -> "t" [] OTHER -> c

ToLower(str) == [i \in 1..Len(str) |-> ToLowerChar(str[i])]

Contains(str, sub) ==
    \E i \in 1..(Len(str) - Len(sub) + 1) : SubSeq(str, i, i + Len(sub) - 1) = sub

botSignatures ==
    {<<"b", "o", "t">>, <<"s", "p", "i", "d", "e", "r">>, <<"c", "r", "a", "w", "l">>,
     <<"s", "l", "u", "r", "p">>, <<"c", "u", "r", "l">>, <<"w", "g", "e", "t">>,
     <<"p", "y", "t", "h", "o", "n", "-", "r", "e", "q", "u", "e", "s", "t", "s">>,
     <<"h", "t", "t", "p", "c", "l", "i", "e", "n", "t">>,
     <<"f", "e", "e", "d", "f", "e", "t", "c", "h", "e", "r">>,
     <<"m", "e", "d", "i", "a", "p", "a", "r", "t", "n", "e", "r", "s", "-", "g", "o", "o", "g", "l", "e">>}

isBot(userAgent) == \E sig \in botSignatures : Contains(ToLower(userAgent), sig)

Browser == <<"M", "o", "z", "i", "l", "l", "a">>
Crawler == <<"G", "o", "o", "g", "l", "e", "B", "O", "T">>

maxIpVelocity == 10
ipVelocityTTL == 5 * 60
maxUserIPs == 5
userIPRotationTTL == 60 * 60

\* The outcomes of TrackBlogView.
Counted == "counted"
BotIgnored == "bot detected"
AlreadyViewed == "already viewed recently"
VelocityLimit == "exceeded view velocity limit"
RotationLimit == "exceeded IP rotation limit"
InvalidInput == "unable to track view without user ID or IP address"
IncrementFailed == "failed to increment view count"
RecordFailed == "failed to record user view"
PopularityFailed == "failed to update blog popularity after view"
CheckFailed == "failed to check for recent blog view"

\* A view call that returns the error of its popularity refresh.
AfterPopularityReturned(err) == IF err THEN PopularityFailed ELSE Counted

\* What TrackBlogView returns after UpdateBlogPopularity: the error is
\* logged and the call returns nil.
AfterPopularity(err) == Counted

\* A velocity decision that compares with >= instead of >.
OverVelocityAtLimit(n) == n >= maxIpVelocity

OverVelocity(n) == n > maxIpVelocity

\* A rotation decision that compares with >= instead of >.
OverRotationAtLimit(n) == n >= maxUserIPs

OverRotation(n) == n > maxUserIPs

\* TrackBlogView on the deployment W = [blogs, views, ipSets, userSets] at
\* time t; cache is "ok" (working client), "err" (every call errors) or
\* "nil" (no client configured). The result is the deployment after the
\* call and how the call ended. fault names the store call that fails:
\* "viewed" (HasViewedRecently), "views_by_ip" and "views_by_user" (the
\* queries of the fallback, whose error skips the check), "increment",
\* "record", "counts", "popularity", or "none".
TrackBlogView(W, cache, fault, t, blogID, userID, ip, userAgent) ==
    LET cacheOK == cache = "ok"
        ipSets1 == AddRecentViewByIP(W.ipSets, cacheOK, ip, blogID, ipVelocityTTL, t)
        ipCount == GetRecentViewCountByIP(ipSets1, cacheOK, ip, t)
        velocity ==
            IF ~ipCount.err THEN OverVelocity(ipCount.n)
            ELSE /\ fault # "views_by_ip"
                 /\ OverVelocity(Cardinality(GetRecentViewsByIP(W.views, ip, t - 5 * 60)))
        userSets1 ==
            IF userID # NoUserID
            THEN AddRecentViewByUser(W.userSets, cacheOK, userID, ip, userIPRotationTTL, t)
            ELSE W.userSets
        userCount == GetRecentIPCountByUser(userSets1, cacheOK, userID, t)
        rotation ==
            /\ userID # NoUserID
            /\ IF ~userCount.err THEN OverRotation(userCount.n)
               ELSE /\ fault # "views_by_user"
                    /\ OverRotation(Cardinality(
                          {v.ip : v \in GetRecentViewsByUser(W.views, userID, t - 60 * 60)}))
        checked == cache # "nil"
        W1 == IF checked THEN [W EXCEPT !.ipSets = ipSets1] ELSE W
        W2 == IF checked THEN [W1 EXCEPT !.userSets = userSets1] ELSE W1
        inc == IncrementViewCount(W2.blogs, blogID)
        recorded == RecordView(W2.views, blogID, userID, ip, t)
        refreshed == UpdateBlogPopularity(inc.blogs, blogID, fault)
    IN  IF userID = NoUserID /\ ip = 0
        THEN [world |-> W, out |-> InvalidInput]
        ELSE IF isBot(userAgent)
        THEN [world |-> W, out |-> BotIgnored]
        ELSE IF fault = "viewed"
        THEN [world |-> W, out |-> CheckFailed]
        ELSE IF HasViewedRecently(W.views, blogID, userID, ip)
        THEN [world |-> W, out |-> AlreadyViewed]
        ELSE IF checked /\ velocity
        THEN [world |-> W1, out |-> VelocityLimit]
        ELSE IF checked /\ rotation
        THEN [world |-> W2, out |-> RotationLimit]
        ELSE IF fault = "increment" \/ inc.err
        THEN [world |-> W2, out |-> IncrementFailed]
        ELSE IF fault = "record"
        THEN [world |-> [W2 EXCEPT !.blogs = inc.blogs], out |-> RecordFailed]
        ELSE [world |-> [W2 EXCEPT !.blogs = refreshed.blogs, !.views = recorded],
              out |-> AfterPopularity(refreshed.err)]

\* ------------------------------------------------------ BlogCacheStore
detailTTL == 60 * 60
listTTL == 30 * 60

\* A key holds a value until its expiry.
Live(C, k, t) == k \in DOMAIN C /\ t < C[k].exp

\* SET key value EX ttl
SetKey(C, k, value, ttl, t) ==
    [x \in DOMAIN C \cup {k} |-> IF x = k THEN [value |-> value, exp |-> t + ttl] ELSE C[x]]

\* DEL key
DelKey(C, k) == [x \in DOMAIN C \ {k} |-> C[x]]

\* BlogCacheStore.GetBlogBySlug: redis.Nil is "not found".
CacheGetBlogBySlug(D, slug, t) ==
    IF Live(D, slug, t) THEN [found |-> TRUE, blog |-> D[slug].value]
    ELSE [found |-> FALSE, blog |-> NoBlog]

SetBlogBySlug(D, slug, blog, t) == SetKey(D, slug, blog, detailTTL, t)

InvalidateBlogBySlug(D, slug) == DelKey(D, slug)

NoPage == [blogs |-> {}, total |-> 0]

GetBlogsPage(L, key, t) ==
    IF Live(L, key, t) THEN [found |-> TRUE, page |-> L[key].value]
    ELSE [found |-> FALSE, page |-> NoPage]

SetBlogsPage(L, key, page, t) == SetKey(L, key, page, listTTL, t)

\* InvalidateBlogLists: SCAN blogs:list:* and DEL every key found.
InvalidateBlogLists(L) == [x \in {} |-> L[x]]

\* ------------------------------------------------------- blog use cases
\* strings.ReplaceAll(strings.ToLower(title), " ", "-")
Slugify(title) ==
    [i \in 1..Len(title) |-> IF title[i] = " " THEN "-" ELSE ToLowerChar(title[i])]

\* buildBlogsListCacheKey with no sort and no date range.
buildBlogsListCacheKey(page, pageSize) == [page |-> page, size |-> pageSize]

\* A status check that lets every status through.
VisibleAnyStatus(blog) == TRUE

Visible(blog) == blog.status \in {BlogStatusPublished, BlogStatusArchived}

NoTitle == <<>>
NoStatus == ""

\* What a read returns: the error, or the blog (GetBlogDetail) or the page
\* with its paging numbers (GetBlogs).
Result(err, blog, page, pageNo, totalPages) ==
    [err |-> err, blog |-> blog, page |-> page, pageNo |-> pageNo, totalPages |-> totalPages]

NoResult == Result("", NoBlog, NoPage, 0, 0)

\* The list query of a GetBlogsHandler request and the time it was made.
Query(page, pageSize, t) == [page |-> page, size |-> pageSize, at |-> t]

NoQuery == Query(0, 0, 0)

\* What a blog read or write did, for the record of the run. A read also
\* records what it returned, and what the same call returns from a deployment
\* whose cache errors on every call (degraded) and from one without a cache
\* (uncached).
Did(op, b, slug, persisted, ok, titled, wasCached, hit, storeRead) ==
    [op |-> op, blog |-> b, slug |-> slug, persisted |-> persisted, ok |-> ok,
     titled |-> titled, wasCached |-> wasCached, hit |-> hit, storeRead |-> storeRead,
     result |-> NoResult, degraded |-> NoResult, uncached |-> NoResult,
     query |-> NoQuery]

\* The site: the blogs collection, the read cache and the uuid source.
\* Every use case below runs on a site at time t, with the store call named
\* by fault failing ("none": no failure), and yields the site after the call
\* and what the call did.

\* CreateBlog without moderation and tags; b is the id the uuid source gives.
CreateBlogUC(S, t, b, title, authorID, status, fault) ==
    LET slug == [base |-> Slugify(title), uuid |-> S.nextUUID + 1]
        blog == [NewBlog EXCEPT !.title = title, !.slug = slug,
                                !.status = status, !.author = authorID]
        S1 == [S EXCEPT !.nextUUID = @ + 2]
    IN  IF fault = "create"
        THEN [site |-> S1,
              did |-> Did("CreateBlog", b, slug, FALSE, FALSE, FALSE, FALSE, FALSE, FALSE)]
        ELSE [site |-> [S1 EXCEPT !.blogs = CreateBlogRepo(S.blogs, b, blog),
                                  !.lists = InvalidateBlogLists(S.lists)],
              did |-> Did("CreateBlog", b, slug, TRUE, TRUE, FALSE, FALSE, FALSE, FALSE)]

\* An update path that forgets the previous slug's entry.
InvalidateAfterUpdateNewSlugOnly(S, oldSlug, newSlug) ==
    [S EXCEPT !.lists = InvalidateBlogLists(S.lists),
              !.detail = InvalidateBlogBySlug(S.detail, newSlug)]

\* "Invalidate caches after update": the lists, the updated blog's slug and,
\* when the slug changed, the old slug.
InvalidateAfterUpdate(S, oldSlug, newSlug) ==
    LET D1 == InvalidateBlogBySlug(S.detail, newSlug)
        D2 == IF newSlug # oldSlug THEN InvalidateBlogBySlug(D1, oldSlug) ELSE D1
    IN  [S EXCEPT !.lists = InvalidateBlogLists(S.lists), !.detail = D2]

\* UpdateBlog with title and status (content and image left nil).
UpdateBlogUC(S, t, b, authorID, title, status, fault) ==
    LET got == GetBlogByID(S.blogs, b)
        oldSlug == got.blog.slug
        titled == title # NoTitle
        newSlug == [base |-> Slugify(title), uuid |-> S.nextUUID]
        S1 == IF titled THEN [S EXCEPT !.nextUUID = @ + 1] ELSE S
        updates ==
            [f \in (IF titled THEN {"title", "slug"} ELSE {})
                   \cup (IF status # NoStatus THEN {"status"} ELSE {}) |->
                CASE f = "title" -> title
                  [] f = "slug" -> newSlug
                  [] f = "status" -> status]
        changed == DOMAIN updates # {}
        wrote == UpdateBlogRepo(S1.blogs, b, updates)
        S2 == IF changed THEN [S1 EXCEPT !.blogs = wrote.blogs] ELSE S1
        reread == GetBlogByID(S2.blogs, b)
        wasCached == Live(S.detail, oldSlug, t)
        Fail(site, persisted) ==
            [site |-> site,
             did |-> Did("UpdateBlog", b, oldSlug, persisted, FALSE, titled, wasCached,
                         FALSE, FALSE)]
    IN  IF fault = "get" \/ got.err THEN Fail(S, FALSE)
        ELSE IF got.blog.author # authorID THEN Fail(S, FALSE)
        ELSE IF changed /\ (fault = "update" \/ wrote.err) THEN Fail(S1, FALSE)
        ELSE IF fault = "reread" \/ reread.err THEN Fail(S2, changed)
        ELSE [site |-> InvalidateAfterUpdate(S2, oldSlug, reread.blog.slug),
              did |-> Did("UpdateBlog", b, oldSlug, changed, TRUE, titled, wasCached,
                          FALSE, FALSE)]

DeleteBlogUC(S, t, b, userID, isAdmin, fault) ==
    LET got == GetBlogByID(S.blogs, b)
        deleted == DeleteBlogRepo(S.blogs, b)
        Fail == [site |-> S,
                 did |-> Did("DeleteBlog", b, got.blog.slug, FALSE, FALSE, FALSE, FALSE,
                             FALSE, FALSE)]
    IN  IF fault = "get" \/ got.err THEN Fail
        ELSE IF ~isAdmin /\ got.blog.author # userID THEN Fail
        ELSE IF fault = "delete" \/ deleted.err THEN Fail
        ELSE [site |-> [S EXCEPT !.blogs = deleted.blogs,
                                 !.lists = InvalidateBlogLists(S.lists),
                                 !.detail = InvalidateBlogBySlug(S.detail, got.blog.slug)],
              did |-> Did("DeleteBlog", b, got.blog.slug, TRUE, TRUE, FALSE, FALSE,
                          FALSE, FALSE)]

\* A cache write whose error reaches the caller.
CacheWriteErrorReturned(cache, err) ==
    IF cache # "nil" /\ err THEN "cache unavailable" ELSE ""

\* _ = uc.blogCache.Set...: what a read returns for the error of its cache
\* write, with a cache configured or not.
CacheWriteError(cache, err) == ""

\* The cache read of a read use case counts as a hit: a cache is configured,
\* the call returned no error and found the key.
CacheHit(cache, err, found) == cache # "nil" /\ ~err /\ found

\* GetBlogDetail: the cached document when there is one in a visible status,
\* else the stored one, cached on the way out. cache is "ok" for a working
\* cache, "err" for one whose every call returns an error, "nil" for none.
GetBlogDetailUC(S, cache, t, slug, fault) ==
    LET answer == CacheGetBlogBySlug(S.detail, slug, t)
        cached == [found |-> CacheHit(cache, cache = "err", answer.found),
                   blog |-> IF cache = "ok" THEN answer.blog ELSE NoBlog]
        got == GetBlogBySlug(S.blogs, slug)
        Read(site, err, blog) ==
            [site |-> site,
             did |-> [Did("GetBlogDetail", 0, slug, FALSE, err = "", FALSE, FALSE,
                          cached.found, TRUE)
                        EXCEPT !.result = Result(err, blog, NoPage, 0, 0)]]
    IN  IF slug = NoSlug
        THEN [site |-> S,
              did |-> [Did("GetBlogDetail", 0, slug, FALSE, FALSE, FALSE, FALSE, FALSE, FALSE)
                         EXCEPT !.result = Result("slug is required", NoBlog, NoPage, 0, 0)]]
        ELSE IF cached.found /\ Visible(cached.blog)
        THEN [site |-> S,
              did |-> [Did("GetBlogDetail", 0, slug, FALSE, TRUE, FALSE, FALSE, TRUE, FALSE)
                         EXCEPT !.result = Result("", cached.blog, NoPage, 0, 0)]]
        ELSE IF fault = "get"
        THEN Read(S, "failed to get blog: failed to retrieve blog post", NoBlog)
        ELSE IF got.err
        THEN Read(S, "failed to get blog: not found or has been deleted", NoBlog)
        ELSE IF got.blog.isDeleted \/ ~Visible(got.blog)
        THEN Read(S, "blog not found", NoBlog)
        ELSE Read(IF cache = "ok"
                  THEN [S EXCEPT !.detail = SetBlogBySlug(S.detail, slug, got.blog, t)]
                  ELSE S,
                  CacheWriteError(cache, cache = "err"), got.blog)

\* GetBlogs: the cached page under the key of the query as given, else the
\* stored page, cached under the key of the normalised query.
\* cache is "ok", "err" or "nil" as for GetBlogDetail.
GetBlogsUC(S, cache, t, page, pageSize, fault) ==
    LET answer == GetBlogsPage(S.lists, buildBlogsListCacheKey(page, pageSize), t)
        cached == [found |-> CacheHit(cache, cache = "err", answer.found),
                   page |-> IF cache = "ok" THEN answer.page ELSE NoPage]
        page1 == IF page < 1 THEN 1 ELSE page
        pageSize1 == IF pageSize < 1 THEN 10 ELSE pageSize
        got == GetBlogsRepo(S.blogs)
        filtered == [blogs |-> {e \in got.blogs : Visible(e[2])}, total |-> got.total]
        Read(site, err, pg, pageNo, totalPages) ==
            [site |-> site,
             did |-> [Did("GetBlogs", 0, NoSlug, FALSE, err = "", FALSE, FALSE,
                          cached.found, TRUE)
                        EXCEPT !.result = Result(err, NoBlog, pg, pageNo, totalPages)]]
    IN  IF cached.found
        THEN [site |-> S,
              did |-> [Did("GetBlogs", 0, NoSlug, FALSE, TRUE, FALSE, FALSE, TRUE, FALSE)
                         EXCEPT !.result =
                            Result("", NoBlog, cached.page, page,
                                   IF pageSize > 0
                                   THEN (cached.page.total + pageSize - 1) \div pageSize
                                   ELSE 0)]]
        ELSE IF fault = "get" THEN Read(S, "failed to get blogs", NoPage, 0, 0)
        ELSE Read(IF cache = "ok"
                  THEN [S EXCEPT !.lists = SetBlogsPage(S.lists,
                            buildBlogsListCacheKey(page1, pageSize1), filtered, t)]
                  ELSE S,
                  CacheWriteError(cache, cache = "err"), filtered, page1,
                  (got.total \div pageSize1)
                      + (IF got.total % pageSize1 # 0 THEN 1 ELSE 0))

\* ------------------------------------------------------- request tasks
\* LikeUsecase.GetUserReaction: the user's active reaction; the lookup's
\* error is kept in the answer next to what the use case returns.
GetUserReaction(L, u, t) ==
    LET like == GetReactionByUserIDAndTargetID(L, u, t)
        err == GetReactionErr(L, u, t)
    IN  IF err # NoErr
        THEN IF ErrorsIs(err, ErrReactionNotFound)
             THEN [like |-> NoReaction, err |-> NoErr, lookup |-> err]
             ELSE [like |-> NoReaction,
                   err |-> Errorf("failed to get user's reaction", err), lookup |-> err]
        ELSE [like |-> like, err |-> NoErr, lookup |-> err]

\* No GetUserReaction call made.
NoLookup == [like |-> NoReaction, err |-> NoErr, lookup |-> NoErr]

IdleLoc ==
    [op |-> "", user |-> 0, target |-> 0, existing |-> NoReaction,
     likeCnt |-> 0, dislikeCnt |-> 0, views |-> 0, comments |-> 0, resultErr |-> FALSE,
     ip |-> 0, ua |-> <<>>, fault |-> "none",
     slug |-> NoSlug, blog |-> NoBlog, title |-> NoTitle, status |-> NoStatus,
     admin |-> FALSE]

Tasks == DOMAIN pc

\* The call histories are kept in runs of one request task, where calls are
\* issued one at a time and the claims about sequences of calls are checked:
\* an entry is appended to a log (p = 0) or kept as task p's last answer.
Logged(history, p, entry) ==
    IF Cardinality(Tasks) # 1 THEN history
    ELSE IF p = 0 THEN Append(history, entry)
    ELSE [history EXCEPT ![p] = entry]

\* A request arrives at an idle task.
Accept(p, label, newLoc) ==
    /\ pc[p] = "idle"
    /\ callsLeft # 0
    /\ callsLeft' = IF callsLeft > 0 THEN callsLeft - 1 ELSE callsLeft
    /\ pc' = [pc EXCEPT ![p] = label]
    /\ loc' = [loc EXCEPT ![p] = newLoc]
    /\ ret' = [ret EXCEPT ![p] = "none"]
    /\ reaction' = [reaction EXCEPT ![p] = NoLookup]

Return(p, value) ==
    /\ pc' = [pc EXCEPT ![p] = "idle"]
    /\ loc' = [loc EXCEPT ![p] = IdleLoc]
    /\ ret' = [ret EXCEPT ![p] = value]
    /\ UNCHANGED <<callsLeft, reaction>>

Goto(p, label, newLoc) ==
    /\ pc' = [pc EXCEPT ![p] = label]
    /\ loc' = [loc EXCEPT ![p] = newLoc]
    /\ UNCHANGED <<ret, callsLeft, reaction>>

\* The transition table of the reaction state machine (spec 4.2).
ToggleTable(op, s) ==
    IF op = LIKE_TYPE_LIKE
    THEN (IF s = "Liked" THEN "None" ELSE "Liked")
    ELSE (IF s = "Disliked" THEN "None" ELSE "Disliked")

\* ------------------------------------------------- InteractionHandler
\* LikeBlogHandler: calls ToggleLike directly, no target check. fault names
\* the store call of the toggle that fails: "get" (the reaction lookup),
\* "count_likes", "count_dislikes", "read_blog" (GetBlogByID), "update_blog"
\* (UpdateBlog), or "none".
LikeBlogHandler(p, u, b, fault) ==
    /\ Accept(p, "toggle_get", [IdleLoc EXCEPT !.op = LIKE_TYPE_LIKE, !.user = u, !.target = b,
                                               !.fault = fault])
    /\ UNCHANGED <<blogs, likes, nextUUID, toggles, viewVars, cacheVars>>

\* A blog id of the wrong length, such as "abc"; the ids the store gives out
\* are uuids of 36 characters.
ShortBlogID == 0

\* len(blogID) == 36
ValidBlogIDFormat(b) == b # ShortBlogID

\* DislikeBlogHandler: validates the id's format, then checks ExistsBlog
\* before ToggleDislike.
DislikeBlogHandler(p, u, b, fault) ==
    /\ Accept(p, IF ValidBlogIDFormat(b) THEN "exists_blog" ELSE "bad_request",
              [IdleLoc EXCEPT !.op = LIKE_TYPE_DISLIKE, !.user = u, !.target = b,
                              !.fault = fault])
    /\ UNCHANGED <<blogs, likes, nextUUID, toggles, viewVars, cacheVars>>

\* The 400 answer to an id of the wrong length.
InvalidBlogIDFormat(p) ==
    /\ pc[p] = "bad_request"
    /\ Return(p, "Invalid blog ID format")
    /\ UNCHANGED <<blogs, likes, nextUUID, toggles, viewVars, cacheVars>>

\* LikeUsecase.ExistsBlog as called by DislikeBlogHandler.
ExistsBlog(p) ==
    /\ pc[p] = "exists_blog"
    /\ IF GetBlogByID(blogs, loc[p].target).err
       THEN Return(p, "Blog not found")
       ELSE Goto(p, "toggle_get", loc[p])
    /\ UNCHANGED <<blogs, likes, nextUUID, toggles, viewVars, cacheVars>>

\* ToggleLike / ToggleDislike, first store call: the user's active reaction.
ToggleGetReaction(p) ==
    /\ pc[p] = "toggle_get"
    /\ LET err == GetReactionErr(likes, loc[p].user, loc[p].target)
       IN IF \/ loc[p].fault = "get"
             \/ err # NoErr /\ ~(ErrorsIs(err, ErrReactionNotFound)
                                  \/ ErrorText(err) = "reaction not found")
          THEN Return(p, "failed to retrieve existing reaction")
          ELSE Goto(p, "toggle_write",
                    [loc[p] EXCEPT !.existing =
                        GetReactionByUserIDAndTargetID(likes, loc[p].user, loc[p].target)])
    /\ toggles' = Logged(toggles, 0, [op |-> loc[p].op, user |-> loc[p].user, target |-> loc[p].target])
    /\ UNCHANGED <<blogs, likes, nextUUID, viewVars, cacheVars>>

\* The reaction write of a toggle: delete the same-typed reaction, retype the
\* other-typed one, or create a new one.
ToggleWrite(p) ==
    /\ pc[p] = "toggle_write"
    /\ LET l == loc[p]
           ex == l.existing
           newLike == [user |-> l.user, target |-> l.target, ttype |-> TargetTypeBlog, type |-> l.op]
       IN IF ex # NoReaction /\ ex.type = l.op
          THEN LET d == DeleteReaction(likes, ex.id)
               IN /\ likes' = d.likes
                  /\ UNCHANGED nextUUID
                  /\ IF d.err /\ l.op = LIKE_TYPE_DISLIKE
                     THEN Return(p, "failed to delete dislike reaction: reaction not found")
                     ELSE Goto(p, "toggle_likes",
                               [l EXCEPT !.resultErr = d.err, !.existing = NoReaction])
          ELSE LET arg == IF ex # NoReaction THEN [ex EXCEPT !.type = l.op] ELSE newLike
               IN /\ likes' = CreateReaction(likes, arg, nextUUID)
                  /\ nextUUID' = IF Cardinality(likes') > Cardinality(likes)
                                 THEN nextUUID + 1 ELSE nextUUID
                  /\ Goto(p, "toggle_likes", [l EXCEPT !.existing = NoReaction])
    /\ UNCHANGED <<blogs, toggles, viewVars, cacheVars>>

ToggleCountLikes(p) ==
    /\ pc[p] = "toggle_likes"
    /\ Goto(p, "toggle_dislikes",
            [loc[p] EXCEPT !.likeCnt = CountLikesByTargetID(likes, loc[p].target)])
    /\ UNCHANGED <<blogs, likes, nextUUID, toggles, viewVars, cacheVars>>

\* return resultErr / return nil: ToggleLike returns the error of its
\* reaction write, ToggleDislike nil. The handler answers an error with it,
\* and goes on to GetUserReaction otherwise.
ToggleReturns(p) ==
    IF loc[p].op = LIKE_TYPE_LIKE /\ loc[p].resultErr
    THEN Return(p, "reaction not found")
    ELSE Goto(p, "get_user_reaction",
              [IdleLoc EXCEPT !.op = loc[p].op, !.user = loc[p].user,
                              !.target = loc[p].target])

\* if err1 == nil && err2 == nil: when either count failed the blog is not
\* updated and the toggle returns as if nothing had failed.
ToggleCountDislikes(p) ==
    /\ pc[p] = "toggle_dislikes"
    /\ IF loc[p].fault \in {"count_likes", "count_dislikes"}
       THEN ToggleReturns(p)
       ELSE Goto(p, "toggle_blog",
                 [loc[p] EXCEPT !.dislikeCnt = CountDislikesByTargetID(likes, loc[p].target)])
    /\ UNCHANGED <<blogs, likes, nextUUID, toggles, viewVars, cacheVars>>

\* blog, err := GetBlogByID; views and comments stay 0 when the blog is
\* missing or the read fails.
ToggleReadBlog(p) ==
    /\ pc[p] = "toggle_blog"
    /\ LET g == GetBlogByID(blogs, loc[p].target)
           failed == g.err \/ loc[p].fault = "read_blog"
       IN Goto(p, "toggle_update",
               [loc[p] EXCEPT !.views = IF failed THEN 0 ELSE g.blog.viewCount,
                              !.comments = IF failed THEN 0 ELSE g.blog.commentCount])
    /\ UNCHANGED <<blogs, likes, nextUUID, toggles, viewVars, cacheVars>>

\* A toggle that wrote one less than the like rows it counted.
ToggleUpdatesOneLess(l) ==
    [likeCount |-> l.likeCnt - 1, dislikeCount |-> l.dislikeCnt,
     popularity |-> CalculatePopularity(l.views, l.likeCnt - 1, l.dislikeCnt, l.comments)]

\* A toggle that wrote the like count and left the dislike count at zero.
ToggleUpdatesNoDislikes(l) ==
    [likeCount |-> l.likeCnt, dislikeCount |-> 0,
     popularity |-> CalculatePopularity(l.views, l.likeCnt, 0, l.comments)]

\* The counter fields a toggle writes to the blog document.
ToggleUpdates(l) ==
    [likeCount |-> l.likeCnt, dislikeCount |-> l.dislikeCnt,
     popularity |-> CalculatePopularity(l.views, l.likeCnt, l.dislikeCnt, l.comments)]

\* _ = blogRepo.UpdateBlog(...): the error of the write is dropped.
ToggleUpdateBlog(p) ==
    /\ pc[p] = "toggle_update"
    /\ blogs' = IF loc[p].fault = "update_blog" THEN blogs
                ELSE UpdateBlogRepo(blogs, loc[p].target, ToggleUpdates(loc[p])).blogs
    /\ ToggleReturns(p)
    /\ UNCHANGED <<likes, nextUUID, toggles, viewVars, cacheVars>>

\* The messages of a handled toggle.
Liked == "Blog liked successfully"
Unliked == "Blog unliked successfully"
Disliked == "Blog disliked successfully"
Undisliked == "Blog undisliked successfully"
Handled == {Liked, Unliked, Disliked, Undisliked}

\* reaction, _ := GetUserReaction(...): the handlers name the new state in
\* their response from the reaction they get.
HandlerGetUserReaction(p) ==
    /\ pc[p] = "get_user_reaction"
    /\ \E r \in {GetUserReaction(likes, loc[p].user, loc[p].target)} :
          /\ pc' = [pc EXCEPT ![p] = "idle"]
          /\ loc' = [loc EXCEPT ![p] = IdleLoc]
          /\ reaction' = Logged(reaction, p, r)
          /\ ret' = [ret EXCEPT ![p] =
                IF loc[p].op = LIKE_TYPE_LIKE
                THEN (IF r.like # NoReaction /\ r.like.type = LIKE_TYPE_LIKE
                      THEN Liked ELSE Unliked)
                ELSE (IF r.like # NoReaction /\ r.like.type = LIKE_TYPE_DISLIKE
                      THEN Disliked ELSE Undisliked)]
    /\ UNCHANGED <<callsLeft, blogs, likes, nextUUID, toggles, viewVars, cacheVars>>

\* ----------------------------------- TrackBlogView, one store call a step
\* The same use case as TrackBlogView above, with a working cache, taken one
\* store call at a time so that concurrent requests interleave; the two
\* cache calls of a limit check (add, count) are one step. The arrival of a
\* request is kept in viewLog.
TrackBlogViewRequest(p, blogID, userID, ip, userAgent) ==
    /\ Accept(p, "view_check",
              [IdleLoc EXCEPT !.op = "view", !.user = userID, !.target = blogID,
                              !.ip = ip, !.ua = userAgent])
    /\ viewLog' = Append(viewLog, [blog |-> blogID, user |-> userID, ip |-> ip,
                                   ua |-> userAgent, at |-> now])
    /\ UNCHANGED <<blogs, likeVars, views, now, ipSets, userSets, shadow, cacheVars>>

\* Input and bot checks, then HasViewedRecently.
ViewCheck(p) ==
    /\ pc[p] = "view_check"
    /\ LET l == loc[p]
       IN IF l.user = NoUserID /\ l.ip = 0 THEN Return(p, InvalidInput)
          ELSE IF isBot(l.ua) THEN Return(p, BotIgnored)
          ELSE IF HasViewedRecently(views, l.target, l.user, l.ip)
          THEN Return(p, AlreadyViewed)
          ELSE Goto(p, "view_velocity", l)
    /\ UNCHANGED <<blogs, likeVars, viewVars, cacheVars>>

\* AddRecentViewByIP and GetRecentViewCountByIP.
ViewVelocity(p) ==
    /\ pc[p] = "view_velocity"
    /\ LET l == loc[p]
           added == AddRecentViewByIP(ipSets, TRUE, l.ip, l.target, ipVelocityTTL, now)
       IN /\ ipSets' = added
          /\ IF OverVelocity(GetRecentViewCountByIP(added, TRUE, l.ip, now).n)
             THEN Return(p, VelocityLimit)
             ELSE Goto(p, IF l.user # NoUserID THEN "view_rotation" ELSE "view_increment", l)
    /\ UNCHANGED <<blogs, likeVars, views, now, userSets, shadow, viewLog, cacheVars>>

\* AddRecentViewByUser and GetRecentIPCountByUser, for a logged-in viewer.
ViewRotation(p) ==
    /\ pc[p] = "view_rotation"
    /\ LET l == loc[p]
           added == AddRecentViewByUser(userSets, TRUE, l.user, l.ip, userIPRotationTTL, now)
       IN /\ userSets' = added
          /\ IF OverRotation(GetRecentIPCountByUser(added, TRUE, l.user, now).n)
             THEN Return(p, RotationLimit)
             ELSE Goto(p, "view_increment", l)
    /\ UNCHANGED <<blogs, likeVars, views, now, ipSets, shadow, viewLog, cacheVars>>

ViewIncrement(p) ==
    /\ pc[p] = "view_increment"
    /\ LET inc == IncrementViewCount(blogs, loc[p].target)
       IN /\ blogs' = inc.blogs
          /\ IF inc.err THEN Return(p, IncrementFailed)
             ELSE Goto(p, "view_record", loc[p])
    /\ UNCHANGED <<likeVars, viewVars, cacheVars>>

ViewRecord(p) ==
    /\ pc[p] = "view_record"
    /\ views' = RecordView(views, loc[p].target, loc[p].user, loc[p].ip, now)
    /\ Goto(p, "view_counts", loc[p])
    /\ UNCHANGED <<blogs, likeVars, now, ipSets, userSets, shadow, viewLog, cacheVars>>

\* UpdateBlogPopularity, first call: GetBlogCounts. Its error ends the
\* refresh, and the view call returns nil.
ViewCounts(p) ==
    /\ pc[p] = "view_counts"
    /\ LET g == GetBlogByID(blogs, loc[p].target)
       IN IF g.err THEN Return(p, Counted)
          ELSE Goto(p, "view_popularity",
                    [loc[p] EXCEPT !.views = g.blog.viewCount, !.likeCnt = g.blog.likeCount,
                                   !.dislikeCnt = g.blog.dislikeCount,
                                   !.comments = g.blog.commentCount])
    /\ UNCHANGED <<blogs, likeVars, viewVars, cacheVars>>

\* UpdateBlogPopularity, second call: UpdateBlog with the score.
ViewPopularity(p) ==
    /\ pc[p] = "view_popularity"
    /\ LET l == loc[p]
       IN blogs' = UpdateBlogRepo(blogs, l.target,
                      [popularity |-> CalculatePopularity(l.views, l.likeCnt,
                                                          l.dislikeCnt, l.comments)]).blogs
    /\ Return(p, Counted)
    /\ UNCHANGED <<likeVars, viewVars, cacheVars>>

\* --------------------------------------------------------- initial states
\* View tracking at start: no view documents, no window sets, time 0; the
\* shadow deployment holds the blogs B too.
InitViewVars(B, I, U) ==
    /\ views = {}
    /\ now = 0
    /\ ipSets = [i \in I |-> EmptyKey]
    /\ userSets = [u \in U |-> EmptyKey]
    /\ shadow = [blogs |-> [b \in B |-> NewBlog], views |-> {},
                 ipSets |-> [i \in I |-> EmptyKey], userSets |-> [u \in U |-> EmptyKey]]
    /\ viewLog = <<>>

\* No view traffic in the run.
InitNoViewTraffic == InitViewVars({}, {}, {})

\* The read cache at start: no entry, nothing done yet.
NoDid == Did("none", 0, NoSlug, FALSE, FALSE, FALSE, FALSE, FALSE, FALSE)

NoOp == [f \in DOMAIN NoDid \cup {"prev"} |-> IF f = "prev" THEN NoDid ELSE NoDid[f]]

InitNoCache ==
    /\ detail = <<>>
    /\ lists = <<>>
    /\ lastOp = NoOp

\* ------------------------------------------------ reaction specifications
\* Blog 1 was created; the other ids of B were never created.
InitLikes(B) ==
    /\ blogs = [b \in B |-> IF b = 1 THEN NewBlog ELSE NoBlog]
    /\ likes = {}
    /\ nextUUID = 1
    /\ toggles = <<>>

InitTasks(T, budget) ==
    /\ callsLeft = budget
    /\ pc = [p \in T |-> "idle"]
    /\ loc = [p \in T |-> IdleLoc]
    /\ ret = [p \in T |-> "none"]
    /\ reaction = [p \in T |-> NoLookup]

NextLike ==
    \/ \E p \in Tasks, u \in Users, b \in DOMAIN blogs : LikeBlogHandler(p, u, b, "none")
    \/ \E p \in Tasks, u \in Users, b \in DOMAIN blogs : DislikeBlogHandler(p, u, b, "none")
    \/ \E p \in Tasks : ExistsBlog(p)
    \/ \E p \in Tasks : ToggleGetReaction(p)
    \/ \E p \in Tasks : ToggleWrite(p)
    \/ \E p \in Tasks : ToggleCountLikes(p)
    \/ \E p \in Tasks : ToggleCountDislikes(p)
    \/ \E p \in Tasks : ToggleReadBlog(p)
    \/ \E p \in Tasks : ToggleUpdateBlog(p)
    \/ \E p \in Tasks : HandlerGetUserReaction(p)

\* Toggles issued one at a time: a single request task.
InitLikeSeq ==
    /\ InitLikes({1, 2})
    /\ InitTasks({1}, MaxSeqCalls)
    /\ InitNoViewTraffic
    /\ InitNoCache

SpecLikeSeq == InitLikeSeq /\ [][NextLike]_vars

\* Blog 1 after user 1 liked it: the state ToggleLike leaves from InitLikes.
InitLiked(B) ==
    /\ blogs = [b \in B |->
                 IF b = 1
                 THEN [NewBlog EXCEPT !.likeCount = 1,
                                      !.popularity = CalculatePopularity(0, 1, 0, 0)]
                 ELSE NoBlog]
    /\ likes = {[id |-> 1, user |-> 1, target |-> 1, ttype |-> TargetTypeBlog,
                 type |-> LIKE_TYPE_LIKE, deleted |-> FALSE]}
    /\ nextUUID = 2
    /\ toggles = <<>>

\* Concurrent toggles: NumProcs request tasks interleaving at store calls,
\* on a blog nobody has reacted to or that user 1 already likes.
InitLike ==
    /\ (InitLikes({1}) \/ InitLiked({1}))
    /\ InitTasks(Procs, MaxCalls)
    /\ InitNoViewTraffic
    /\ InitNoCache

SpecLike == InitLike /\ [][NextLike]_vars

Spec == SpecLike

\* The reaction state of (user, target) as stored.
ReactionState(u, t) ==
    LET r == GetReactionByUserIDAndTargetID(likes, u, t)
    IN IF r = NoReaction THEN "None"
       ELSE IF r.type = LIKE_TYPE_LIKE THEN "Liked" ELSE "Disliked"

AllIdle == \A p \in Tasks : pc[p] = "idle"

\* ------------------------------------------------------ reaction claims
\* The transition table folded over the toggles of (u, t), from no reaction.
RECURSIVE FoldToggles(_, _, _)
FoldToggles(sq, u, t) ==
    IF sq = <<>> THEN "None"
    ELSE LET last == sq[Len(sq)]
             before == FoldToggles(SubSeq(sq, 1, Len(sq) - 1), u, t)
         IN IF last.user = u /\ last.target = t THEN ToggleTable(last.op, before) ELSE before

NoWritePending == \A p \in Tasks : pc[p] # "toggle_write"

\* C2: with toggles issued one at a time and starting from no reaction, the
\* stored reaction state of every (user, blog) equals the transition table
\* folded over the toggles that user issued on that blog.
C2_ToggleFold ==
    NoWritePending =>
        \A u \in Users, b \in DOMAIN blogs :
            ReactionState(u, b) = FoldToggles(toggles, u, b)

\* A user has disliked blog 1, then liked it (retype), then liked it again (remove).
C2_Witness ==
    /\ AllIdle
    /\ Len(toggles) = 3
    /\ \A i \in 1..3 : toggles[i].user = 1 /\ toggles[i].target = 1
    /\ toggles[1].op = LIKE_TYPE_DISLIKE
    /\ toggles[2].op = LIKE_TYPE_LIKE
    /\ toggles[3].op = LIKE_TYPE_LIKE
    /\ ReactionState(1, 1) = "None"

LikeBy(u, b) == [op |-> LIKE_TYPE_LIKE, user |-> u, target |-> b]

\* C10: on the newly created blog 1, after a user's first ToggleLike the stored
\* likeCount is 1 and the popularity is the score of (views, 1, 0, comments);
\* after the same user's second ToggleLike the likeCount is 0 and the
\* popularity is again the value the blog was created with.
C10_LikeUnlike ==
    \A u \in Users :
        /\ (AllIdle /\ toggles = <<LikeBy(u, 1)>>) =>
              /\ blogs[1].likeCount = 1
              /\ blogs[1].popularity =
                    CalculatePopularity(blogs[1].viewCount, 1, 0, blogs[1].commentCount)
        /\ (AllIdle /\ toggles = <<LikeBy(u, 1), LikeBy(u, 1)>>) =>
              /\ blogs[1].likeCount = 0
              /\ blogs[1].popularity = NewBlog.popularity

C10_Witness ==
    /\ AllIdle
    /\ toggles = <<LikeBy(1, 1), LikeBy(1, 1)>>
    /\ blogs[1].likeCount = 0
    /\ \E r \in likes : r.user = 1 /\ r.target = 1 /\ r.deleted

\* The blog b is in the store and not soft-deleted.
BlogExists(b) == b \in DOMAIN blogs /\ ~GetBlogByID(blogs, b).err

\* The stored counters of blog b equal the active rows of the reaction table.
CountersMatchRows(b) ==
    /\ blogs[b].likeCount = CountLikesByTargetID(likes, b)
    /\ blogs[b].dislikeCount = CountDislikesByTargetID(likes, b)

C15_NotFoundIsNoReaction ==
    \A p \in Tasks :
        reaction[p].lookup = RepoErrReactionNotFound =>
            /\ reaction[p].like = NoReaction
            /\ reaction[p].err = NoErr

\* What a toggle returns when its reaction write finds the reaction gone.
ToggleErrors ==
    {"reaction not found", "failed to delete dislike reaction: reaction not found",
     "failed to retrieve existing reaction"}

\* C16: in every interleaving of concurrent toggles (by the same user on the
\* same target, the store failing for no other reason), every ToggleLike and
\* ToggleDislike call returns success: none returns an error caused by the
\* user having no active reaction.
C16_TogglesNeverFail ==
    \A p \in Tasks : ret[p] \notin ToggleErrors

\* Concurrent toggles by different users: request task p carries the requests
\* of user p, so the calls in flight at any time belong to different users.
NextLikeUsers ==
    \/ \E p \in Tasks : LikeBlogHandler(p, p, 1, "none")
    \/ \E p \in Tasks : DislikeBlogHandler(p, p, 1, "none")
    \/ \E p \in Tasks : ExistsBlog(p)
    \/ \E p \in Tasks : ToggleGetReaction(p)
    \/ \E p \in Tasks : ToggleWrite(p)
    \/ \E p \in Tasks : ToggleCountLikes(p)
    \/ \E p \in Tasks : ToggleCountDislikes(p)
    \/ \E p \in Tasks : ToggleReadBlog(p)
    \/ \E p \in Tasks : ToggleUpdateBlog(p)
    \/ \E p \in Tasks : HandlerGetUserReaction(p)

InitLikeUsers ==
    /\ InitLikes({1})
    /\ InitTasks(Procs, MaxCalls)
    /\ InitNoViewTraffic
    /\ InitNoCache

SpecLikeUsers == InitLikeUsers /\ [][NextLikeUsers]_vars

\* C20: when toggles by different users on the same blog run concurrently, no
\* counter update is lost: once every toggle call has returned, the blog's
\* stored likeCount is the number of active like rows for it and its stored
\* dislikeCount the number of active dislike rows.
C20_NoLostCounterUpdate ==
    AllIdle => CountersMatchRows(1)

\* ------------------------------------------------------- view tracking
\* The deployment with the working cache.
World == [blogs |-> blogs, views |-> views, ipSets |-> ipSets, userSets |-> userSets]

\* TrackBlogViewHandler: one view request, run to its response. The same
\* request is also served by the shadow deployment, whose cache client
\* errors on every call.
TrackBlogViewHandler(p, blogID, userID, ip, userAgent, fault) ==
    /\ pc[p] = "idle"
    /\ callsLeft > 0
    /\ \E r \in {TrackBlogView(World, "ok", fault, now, blogID, userID, ip, userAgent)},
          f \in {TrackBlogView(shadow, "err", fault, now, blogID, userID, ip, userAgent)} :
           /\ blogs' = r.world.blogs
           /\ views' = r.world.views
           /\ ipSets' = r.world.ipSets
           /\ userSets' = r.world.userSets
           /\ shadow' = f.world
           /\ ret' = [ret EXCEPT ![p] = r.out]
           /\ viewLog' = Append(viewLog,
                [blog |-> blogID, user |-> userID, ip |-> ip, ua |-> userAgent,
                 at |-> now, fault |-> fault, out |-> r.out, fallback |-> f.out,
                 vcBefore |-> blogs[blogID].viewCount,
                 vcAfter |-> r.world.blogs[blogID].viewCount,
                 nvBefore |-> Cardinality(views),
                 nvAfter |-> Cardinality(r.world.views)])
    /\ callsLeft' = callsLeft - 1
    /\ UNCHANGED <<pc, loc, reaction, now, likeVars, cacheVars>>

\* Time passes between requests.
Tick(step, limit) ==
    /\ \A p \in Tasks : pc[p] = "idle"
    /\ now + step <= limit
    /\ now' = now + step
    /\ UNCHANGED <<blogs, likeVars, taskVars, views, ipSets, userSets, shadow, viewLog, cacheVars>>

InitViews(B, I, U) ==
    /\ blogs = [b \in B |-> NewBlog]
    /\ likes = {}
    /\ nextUUID = 1
    /\ toggles = <<>>
    /\ InitViewVars(B, I, U)

\* The client of a run: its login and its user agent, fixed by its first request.
Clients ==
    IF viewLog = <<>>
    THEN [user : {NoUserID, 1}, ua : {Browser, Crawler}]
    ELSE {[user |-> viewLog[1].user, ua |-> viewLog[1].ua]}

\* Velocity runs: one IP address views blog 1, blog 2, ... in turn.
VelocityBlogs == 1..(maxIpVelocity + 2)
VelocityTick == ipVelocityTTL \div 3

NextVelocity ==
    \/ \E p \in Tasks, c \in Clients :
          TrackBlogViewHandler(p, Len(viewLog) + 1, c.user, 1, c.ua, "none")
    \/ Tick(VelocityTick, MaxVelocityTicks * VelocityTick)

InitVelocity ==
    /\ InitViews(VelocityBlogs, {1}, {1})
    /\ InitTasks({1}, maxIpVelocity + 2)
    /\ InitNoCache

SpecVelocity == InitVelocity /\ [][NextVelocity]_vars

\* Dedup / rotation runs: each request views a blog not seen before from an
\* address not seen before ("fresh"), repeats the previous request ("again"),
\* or views the previous blog from an address not seen before ("moved").
MaxOf(S) == IF S = {} THEN 0 ELSE LET x == CHOOSE y \in S : \A z \in S : z <= y IN x

LastView == viewLog[Len(viewLog)]
FreshBlog == MaxOf({viewLog[i].blog : i \in 1..Len(viewLog)}) + 1
FreshIP == MaxOf({viewLog[i].ip : i \in 1..Len(viewLog)}) + 1

ViewTargets ==
    {[blog |-> FreshBlog, ip |-> FreshIP]}
    \cup (IF viewLog = <<>> THEN {}
          ELSE {[blog |-> LastView.blog, ip |-> LastView.ip],
                [blog |-> LastView.blog, ip |-> FreshIP]})

RotationTick == 2 * (userIPRotationTTL \div 3)

NextView ==
    \/ \E p \in Tasks, c \in Clients, v \in ViewTargets :
          TrackBlogViewHandler(p, v.blog, c.user, v.ip, c.ua, "none")
    \/ Tick(RotationTick, MaxViewTicks * RotationTick)

InitView ==
    /\ InitViews(1..MaxViewCalls, 1..MaxViewCalls, {1})
    /\ InitTasks({1}, MaxViewCalls)
    /\ InitNoCache

SpecView == InitView /\ [][NextView]_vars

\* Runs with store failures: the requests of the dedup runs at one time of
\* day, each with one of the store calls made after the checks failing, or none.
ViewFaults == {"none", "increment", "record", "counts", "popularity"}

NextViewFault ==
    \E p \in Tasks, c \in Clients, v \in ViewTargets, fault \in ViewFaults :
        TrackBlogViewHandler(p, v.blog, c.user, v.ip, c.ua, fault)

InitViewFault ==
    /\ InitViews(1..MaxFaultCalls, 1..MaxFaultCalls, {1})
    /\ InitTasks({1}, MaxFaultCalls)
    /\ InitNoCache

SpecViewFault == InitViewFault /\ [][NextViewFault]_vars

\* Recency runs: one reader, logged in or not, views blog 1 or blog 2 from
\* one of two addresses or with no address (0), and up to a day and a half
\* passes.
RecencyWindow == 24 * 3600
RecencyTick == RecencyWindow \div 2

NextViewRecency ==
    \/ \E p \in Tasks, c \in Clients, b \in {1, 2}, ip \in {0, 1, 2} :
          TrackBlogViewHandler(p, b, c.user, ip, c.ua, "none")
    \/ Tick(RecencyTick, MaxRecencyTicks * RecencyTick)

InitViewRecency ==
    /\ InitViews({1, 2}, {0, 1, 2}, {1})
    /\ InitTasks({1}, MaxRecencyCalls)
    /\ InitNoCache

SpecViewRecency == InitViewRecency /\ [][NextViewRecency]_vars

\* ---------------------------------------------------------- view claims
Calls == 1..Len(viewLog)

NonBot(i) == viewLog[i].out # BotIgnored

SameViewer(a, b) == a.ip = b.ip \/ (a.user # NoUserID /\ a.user = b.user)

SameBlogAndViewer(i, j) ==
    viewLog[i].blog = viewLog[j].blog /\ SameViewer(viewLog[i], viewLog[j])

\* Call i is the viewer's first request for the blog.
FirstView(i) == NonBot(i) /\ \A j \in 1..(i - 1) : ~SameBlogAndViewer(j, i)

RateLimited(i) == viewLog[i].out \in {VelocityLimit, RotationLimit}

Burst == 1..(maxIpVelocity + 1)

BurstDone == Len(viewLog) >= maxIpVelocity + 1 /\ NonBot(1)

BurstSpan == viewLog[maxIpVelocity + 1].at - viewLog[1].at

\* C4: with the working cache, when one address views 11 distinct blogs in
\* less than 5 minutes, calls 1..10 are counted and call 11 is rejected with
\* the velocity-limit error, the 11th blog's viewCount staying as it was.
C4_VelocityLimit ==
    (BurstDone /\ BurstSpan < ipVelocityTTL) =>
        /\ \A i \in 1..maxIpVelocity : viewLog[i].out = Counted
        /\ viewLog[maxIpVelocity + 1].out = VelocityLimit
        /\ viewLog[maxIpVelocity + 1].vcAfter = viewLog[maxIpVelocity + 1].vcBefore
        /\ blogs[maxIpVelocity + 1].viewCount = 0

C4_Witness ==
    /\ BurstDone
    /\ BurstSpan > 0
    /\ BurstSpan < ipVelocityTTL
    /\ viewLog[maxIpVelocity + 1].out = VelocityLimit

\* C5: with the working cache, when the 11 calls are spread so that the first
\* is more than 5 minutes before the 11th and consecutive calls are less than
\* 5 minutes apart, all 11 are counted.
C5_WindowSlides ==
    (/\ BurstDone
     /\ BurstSpan > ipVelocityTTL
     /\ \A i \in 1..maxIpVelocity : viewLog[i + 1].at - viewLog[i].at < ipVelocityTTL)
    => \A i \in Burst : viewLog[i].out = Counted

\* The distinct addresses of the viewer's first views up to call i.
AddressesUpTo(i) == {viewLog[j].ip : j \in {k \in 1..i : FirstView(k)}}

\* C6: with the working cache, when a logged-in user views distinct blogs
\* from distinct addresses, all in less than 60 minutes, the views from the
\* first 5 addresses are counted and the view from the 6th address is
\* rejected with the rotation-limit error, that blog's viewCount staying as
\* it was.
C6_RotationLimit ==
    \A i \in Calls :
        (/\ viewLog[i].user # NoUserID
         /\ FirstView(i)
         /\ viewLog[i].at - viewLog[1].at < userIPRotationTTL)
        => /\ Cardinality(AddressesUpTo(i)) <= maxUserIPs => viewLog[i].out = Counted
           /\ Cardinality(AddressesUpTo(i)) = maxUserIPs + 1 =>
                 /\ viewLog[i].out = RotationLimit
                 /\ viewLog[i].vcAfter = viewLog[i].vcBefore

C6_Witness ==
    \E i \in Calls :
        /\ viewLog[i].user # NoUserID
        /\ FirstView(i)
        /\ viewLog[i].at > viewLog[1].at
        /\ viewLog[i].at - viewLog[1].at < userIPRotationTTL
        /\ Cardinality(AddressesUpTo(i)) = maxUserIPs + 1
        /\ viewLog[i].out = RotationLimit

\* C7: call by call, the deployment whose cache errors on every call ends
\* each request as the deployment with the working cache does.
C7_FallbackSameOutcome == \A i \in Calls : viewLog[i].fallback = viewLog[i].out

\* ---------------------------------------------------------- read cache
Site == [blogs |-> blogs, detail |-> detail, lists |-> lists, nextUUID |-> nextUUID]

\* The record of the run: what the call did, and what the call before it did.
Remember(did) ==
    [f \in DOMAIN did \cup {"prev"} |->
        IF f = "prev" THEN [g \in DOMAIN lastOp \ {"prev"} |-> lastOp[g]] ELSE did[f]]

\* A request can arrive at task p.
Arrives(p) == pc[p] = "idle" /\ callsLeft > 0

\* A blog request served from its arrival to its response.
Serve(p, r) ==
    /\ Arrives(p)
    /\ callsLeft' = callsLeft - 1
    /\ blogs' = r.site.blogs
    /\ detail' = r.site.detail
    /\ lists' = r.site.lists
    /\ nextUUID' = r.site.nextUUID
    /\ lastOp' = Remember(r.did)
    /\ ret' = [ret EXCEPT ![p] = IF r.did.ok THEN "ok" ELSE "error"]
    /\ UNCHANGED <<pc, loc, reaction, likes, toggles, viewVars>>

Title1 == <<"G", "o", " ", "B", "O", "T">>
Title2 == <<"g", "o", "-", "b", "o", "t">>

\* The callers of UpdateBlog: the author of every blog, and somebody else.
Authors == {1, 2}

\* The callers of DeleteBlog: the author, somebody else, an administrator.
Callers ==
    {[id |-> 1, admin |-> FALSE], [id |-> 2, admin |-> FALSE], [id |-> 2, admin |-> TRUE]}

FreeBlogs == {b \in DOMAIN blogs : ~blogs[b].present}

CreateBlog(p, title, authorID, status, fault) ==
    /\ Arrives(p)
    /\ FreeBlogs # {}
    /\ \E b \in {x \in FreeBlogs : \A y \in FreeBlogs : x <= y} :
          \E r \in {CreateBlogUC(Site, now, b, title, authorID, status, fault)} : Serve(p, r)

UpdateBlog(p, b, authorID, title, status, fault) ==
    /\ Arrives(p)
    /\ \E r \in {UpdateBlogUC(Site, now, b, authorID, title, status, fault)} : Serve(p, r)

DeleteBlog(p, b, userID, isAdmin, fault) ==
    /\ Arrives(p)
    /\ \E r \in {DeleteBlogUC(Site, now, b, userID, isAdmin, fault)} : Serve(p, r)

\* A read request, served by the deployment with the working cache; the
\* same call on the same store is also answered with the cache erroring on
\* every call and with no cache configured (the store is written by the
\* write use cases alike in all three, which ignore what the cache answers).
Answers(r, e, n) ==
    [r EXCEPT !.did.degraded = e.did.result, !.did.uncached = n.did.result]

GetBlogDetail(p, slug, fault) ==
    /\ Arrives(p)
    /\ \E r \in {GetBlogDetailUC(Site, "ok", now, slug, fault)},
          e \in {GetBlogDetailUC(Site, "err", now, slug, fault)},
          n \in {GetBlogDetailUC(Site, "nil", now, slug, fault)} : Serve(p, Answers(r, e, n))

GetBlogs(p, page, pageSize, fault) ==
    /\ Arrives(p)
    /\ \E r \in {GetBlogsUC(Site, "ok", now, page, pageSize, fault)},
          e \in {GetBlogsUC(Site, "err", now, page, pageSize, fault)},
          n \in {GetBlogsUC(Site, "nil", now, page, pageSize, fault)} : Serve(p, Answers(r, e, n))

\* The slugs a reader may ask for: the slugs of the stored blogs, the cached
\* slugs, and the slug the last call was about.
Slugs == ({blogs[b].slug : b \in DOMAIN blogs} \cup DOMAIN detail \cup {lastOp.slug}) \ {NoSlug}

CacheTick == listTTL

\* The store calls of UpdateBlog / DeleteBlog that can be made to fail: the
\* calls after the first read and the permission check, which a request for
\* a missing blog or from a caller without permission never reaches.
UpdateFaults(b, authorID) ==
    IF ~GetBlogByID(blogs, b).err /\ blogs[b].author = authorID
    THEN {"none", "update", "reread"} ELSE {"none"}

DeleteFaults(b, c) ==
    IF ~GetBlogByID(blogs, b).err /\ (c.admin \/ blogs[b].author = c.id)
    THEN {"none", "delete"} ELSE {"none"}

NextCache ==
    \/ \E p \in Tasks, status \in {BlogStatusPublished, BlogStatusDraft},
          fault \in {"none", "create"} :
          CreateBlog(p, Title1, 1, status, fault)
    \/ \E p \in Tasks, b \in DOMAIN blogs, authorID \in Authors, title \in {NoTitle, Title2},
          status \in {NoStatus, BlogStatusPublished, BlogStatusDraft} :
          \E fault \in UpdateFaults(b, authorID) :
          UpdateBlog(p, b, authorID, title, status, fault)
    \/ \E p \in Tasks, b \in DOMAIN blogs, c \in Callers :
          \E fault \in DeleteFaults(b, c) :
          DeleteBlog(p, b, c.id, c.admin, fault)
    \/ \E p \in Tasks, slug \in Slugs, fault \in {"none", "get"} :
          GetBlogDetail(p, slug, fault)
    \/ \E p \in Tasks, page \in {0, 1}, fault \in {"none", "get"} :
          GetBlogs(p, page, 10, fault)
    \/ Tick(CacheTick, MaxCacheTicks * CacheTick)

InitCache ==
    /\ blogs = [b \in 1..MaxBlogs |-> NoBlog]
    /\ likes = {}
    /\ nextUUID = 1
    /\ toggles = <<>>
    /\ InitTasks({1}, MaxCacheCalls)
    /\ InitNoViewTraffic
    /\ InitNoCache

SpecCache == InitCache /\ [][NextCache]_vars

\* The popularity refresh of call i failed.
RefreshFailed(i) == viewLog[i].fault \in {"counts", "popularity"}

\* Call i passed the checks before the store writes: valid input, no bot, a
\* first view, within the limits.
PassedChecks(i) ==
    /\ viewLog[i].out # InvalidInput
    /\ FirstView(i)
    /\ ~RateLimited(i)

\* The view document call i appended is in the store.
RecordKept(i) ==
    \E v \in views :
        /\ v.blog = viewLog[i].blog /\ v.user = viewLog[i].user
        /\ v.ip = viewLog[i].ip /\ v.at = viewLog[i].at

\* C14: a view that passes all checks, whose increment and record succeed and
\* whose popularity refresh fails (reading the counts or writing the score),
\* returns success, and the increment and the view document stay in the store.
C14_RefreshFailureSucceeds ==
    \A i \in Calls :
        (PassedChecks(i) /\ RefreshFailed(i)) =>
            /\ viewLog[i].out = Counted
            /\ viewLog[i].vcAfter = viewLog[i].vcBefore + 1
            /\ viewLog[i].nvAfter = viewLog[i].nvBefore + 1
            /\ blogs[viewLog[i].blog].viewCount >= viewLog[i].vcAfter
            /\ RecordKept(i)

\* The first view of blog 1 was counted while writing the popularity failed:
\* the view count is 1 and the stored popularity is still the one of no view.
C14_Witness ==
    /\ Len(viewLog) = 1
    /\ viewLog[1].fault = "popularity"
    /\ viewLog[1].out = Counted
    /\ blogs[1].viewCount = 1
    /\ Cardinality(views) = 1
    /\ blogs[1].popularity = NewBlog.popularity
    /\ blogs[1].popularity # CalculatePopularity(1, 0, 0, 0)

\* Call i repeats a counted view of the same blog by the same viewer, and
\* every such counted view is older than the recency window.
RepeatsAfterWindow(i) ==
    /\ NonBot(i)
    /\ \E j \in 1..(i - 1) : SameBlogAndViewer(j, i) /\ viewLog[j].out = Counted
    /\ \A j \in 1..(i - 1) :
          (SameBlogAndViewer(j, i) /\ viewLog[j].out = Counted) =>
              viewLog[i].at - viewLog[j].at > RecencyWindow

\* C23: recency dedup applies only inside the trailing window: when the same
\* viewer views the same blog again after the recency window (24 hours) has
\* elapsed since their last recorded view, the second view is not deduped
\* and is counted, so viewCount increases again.
C23_CountedAgainAfterWindow ==
    \A i \in Calls :
        (RepeatsAfterWindow(i) /\ ~RateLimited(i)) =>
            /\ viewLog[i].out = Counted
            /\ viewLog[i].vcAfter = viewLog[i].vcBefore + 1

\* The outcomes of a call stopped by a check.
Stopped == {InvalidInput, BotIgnored, AlreadyViewed, VelocityLimit, RotationLimit}

\* A view call is served in this step; e is its entry in the log.
ViewServed == Len(viewLog') = Len(viewLog) + 1

\* C26: a TrackBlogView call that ends as invalid input, bot-ignored,
\* recently-viewed, velocity-rejected or rotation-rejected leaves every blog's
\* viewCount and popularity and the set of view documents unchanged; only a
\* call that passes all checks increments viewCount and appends a view
\* document, and it appends exactly one.
C26_StoppedCallsChangeNothing ==
    [][ViewServed =>
         LET e == viewLog'[Len(viewLog')]
         IN  /\ e.out \in Stopped => (blogs' = blogs /\ views' = views)
             /\ (blogs' # blogs \/ views' # views) =>
                   /\ e.out = Counted
                   /\ blogs'[e.blog].viewCount = blogs[e.blog].viewCount + 1
                   /\ \A b \in DOMAIN blogs \ {e.blog} : blogs'[b] = blogs[b]
                   /\ views \subseteq views'
                   /\ Cardinality(views') = Cardinality(views) + 1
                   /\ \A v \in views' \ views :
                         v.blog = e.blog /\ v.user = e.user /\ v.ip = e.ip]_vars

\* A crawler's request, a repeated view and a view over the rotation limit
\* have been answered, and the counters are those of the counted views.
C26_Witness ==
    /\ \E i \in Calls : viewLog[i].out = AlreadyViewed
    /\ \E i \in Calls : viewLog[i].out = RotationLimit
    /\ \E i \in Calls : viewLog[i].out = Counted
    /\ Cardinality(views) = Cardinality({i \in Calls : viewLog[i].out = Counted})

\* ------------------------------------------------- concurrent view requests
\* The viewers of the race runs: one user from two addresses, and an
\* anonymous reader at the first address.
RaceViewers ==
    {[user |-> 1, ip |-> 1], [user |-> 1, ip |-> 2], [user |-> NoUserID, ip |-> 1]}

NextViewRace ==
    \/ \E p \in Tasks, v \in RaceViewers : TrackBlogViewRequest(p, 1, v.user, v.ip, Browser)
    \/ \E p \in Tasks : ViewCheck(p)
    \/ \E p \in Tasks : ViewVelocity(p)
    \/ \E p \in Tasks : ViewRotation(p)
    \/ \E p \in Tasks : ViewIncrement(p)
    \/ \E p \in Tasks : ViewRecord(p)
    \/ \E p \in Tasks : ViewCounts(p)
    \/ \E p \in Tasks : ViewPopularity(p)

InitViewRace ==
    /\ InitViews({1}, {1, 2}, {1})
    /\ InitTasks(Procs, MaxCalls)
    /\ InitNoCache

SpecViewRace == InitViewRace /\ [][NextViewRace]_vars

\* All requests made for blog b came from one viewer: any two of them have
\* the same user id or the same address.
OneViewer(b) ==
    \A i, j \in Calls :
        (viewLog[i].blog = b /\ viewLog[j].blog = b) => SameViewer(viewLog[i], viewLog[j])

\* C19: when the TrackBlogView calls for a blog all come from the same viewer
\* (same user id or same address) and run concurrently, in every interleaving
\* of their store operations the blog's viewCount grows by at most 1 and at
\* most one view document is appended for it.
C19_ConcurrentViewsCountOnce ==
    \A b \in DOMAIN blogs :
        OneViewer(b) =>
            /\ blogs[b].viewCount <= 1
            /\ Cardinality({v \in views : v.blog = b}) <= 1

\* Concurrent view requests of distinct viewers: request task p carries the
\* requests of user p, sent from address p.
NextViewDistinct ==
    \/ \E p \in Tasks : TrackBlogViewRequest(p, 1, p, p, Browser)
    \/ \E p \in Tasks : ViewCheck(p)
    \/ \E p \in Tasks : ViewVelocity(p)
    \/ \E p \in Tasks : ViewRotation(p)
    \/ \E p \in Tasks : ViewIncrement(p)
    \/ \E p \in Tasks : ViewRecord(p)
    \/ \E p \in Tasks : ViewCounts(p)
    \/ \E p \in Tasks : ViewPopularity(p)

InitViewDistinct ==
    /\ InitViews({1}, Procs, Procs)
    /\ InitTasks(Procs, MaxCalls)
    /\ InitNoCache

SpecViewDistinct == InitViewDistinct /\ [][NextViewDistinct]_vars

\* The requests made so far came from viewers with pairwise distinct user
\* ids and addresses.
DistinctViewers ==
    \A i, j \in Calls :
        i # j => (viewLog[i].user # viewLog[j].user /\ viewLog[i].ip # viewLog[j].ip)

\* C21: when N TrackBlogView calls from N distinct viewers (distinct ids and
\* addresses, all passing the fraud checks) run concurrently on the same
\* blog, then in every interleaving the blog's viewCount has increased by
\* exactly N once all calls have returned.
C21_DistinctViewsAllCounted ==
    (AllIdle /\ DistinctViewers) =>
        /\ blogs[1].viewCount = Len(viewLog)
        /\ \A p \in Tasks : ret[p] \in {"none", Counted}

\* Two viewers' calls have interleaved and returned: viewCount is 2.
C21_Witness ==
    /\ AllIdle
    /\ DistinctViewers
    /\ Len(viewLog) = NumProcs
    /\ \A p \in Tasks : ret[p] = Counted
    /\ blogs[1].viewCount = NumProcs

\* Concurrent view and reaction requests on blog 1, with no store failure.
NextViewLike ==
    \/ \E p \in Tasks, u \in Users : LikeBlogHandler(p, u, 1, "none")
    \/ \E p \in Tasks, u \in Users : DislikeBlogHandler(p, u, 1, "none")
    \/ \E p \in Tasks : ExistsBlog(p)
    \/ \E p \in Tasks : ToggleGetReaction(p)
    \/ \E p \in Tasks : ToggleWrite(p)
    \/ \E p \in Tasks : ToggleCountLikes(p)
    \/ \E p \in Tasks : ToggleCountDislikes(p)
    \/ \E p \in Tasks : ToggleReadBlog(p)
    \/ \E p \in Tasks : ToggleUpdateBlog(p)
    \/ \E p \in Tasks : HandlerGetUserReaction(p)
    \/ \E p \in Tasks, v \in RaceViewers : TrackBlogViewRequest(p, 1, v.user, v.ip, Browser)
    \/ \E p \in Tasks : ViewCheck(p)
    \/ \E p \in Tasks : ViewVelocity(p)
    \/ \E p \in Tasks : ViewRotation(p)
    \/ \E p \in Tasks : ViewIncrement(p)
    \/ \E p \in Tasks : ViewRecord(p)
    \/ \E p \in Tasks : ViewCounts(p)
    \/ \E p \in Tasks : ViewPopularity(p)

InitViewLike ==
    /\ InitViews({1}, {1, 2}, {1})
    /\ InitTasks(Procs, MaxCalls)
    /\ InitNoCache

SpecViewLike == InitViewLike /\ [][NextViewLike]_vars

\* The stored popularity of blog b is the score of its stored counters.
PopularityFresh(b) ==
    blogs[b].popularity =
        CalculatePopularity(blogs[b].viewCount, blogs[b].likeCount,
                            blogs[b].dislikeCount, blogs[b].commentCount)

\* C22: in every interleaving of concurrent TrackBlogView and ToggleLike /
\* ToggleDislike calls on the same blog with no store failure, once all calls
\* have returned the blog's stored popularity equals the score of its stored
\* (viewCount, likeCount, dislikeCount, commentCount).
C22_PopularityFresh ==
    AllIdle => PopularityFresh(1)

\* ------------------------------------------------------------ store failures
\* View and reaction requests issued one at a time, each with one of its
\* store calls failing, or none. The view requests are those of the dedup
\* runs; the deployment whose cache errors takes the fallback queries.
StoreViewFaults == {"none", "viewed", "views_by_ip", "views_by_user", "increment", "record"}
StoreToggleFaults == {"none", "get", "count_likes", "count_dislikes", "read_blog", "update_blog"}

NextStoreFault ==
    \/ \E p \in Tasks, c \in Clients, v \in ViewTargets, fault \in StoreViewFaults :
          TrackBlogViewHandler(p, v.blog, c.user, v.ip, c.ua, fault)
    \/ \E p \in Tasks, u \in Users, fault \in StoreToggleFaults : LikeBlogHandler(p, u, 1, fault)
    \/ \E p \in Tasks, u \in Users, fault \in StoreToggleFaults : DislikeBlogHandler(p, u, 1, fault)
    \/ \E p \in Tasks : ExistsBlog(p)
    \/ \E p \in Tasks : ToggleGetReaction(p)
    \/ \E p \in Tasks : ToggleWrite(p)
    \/ \E p \in Tasks : ToggleCountLikes(p)
    \/ \E p \in Tasks : ToggleCountDislikes(p)
    \/ \E p \in Tasks : ToggleReadBlog(p)
    \/ \E p \in Tasks : ToggleUpdateBlog(p)
    \/ \E p \in Tasks : HandlerGetUserReaction(p)

InitStoreFault ==
    /\ InitViews(1..MaxStoreFaultCalls, 1..MaxStoreFaultCalls, {1})
    /\ InitTasks({1}, MaxStoreFaultCalls)
    /\ InitNoCache

SpecStoreFault == InitStoreFault /\ [][NextStoreFault]_vars

\* The failing store call of view call i was made by the deployment whose
\* cache errors: the call got as far as that store call.
ViewFaultMet(i) ==
    LET e == viewLog[i]
    IN  CASE e.fault = "viewed" ->
               ~(e.user = NoUserID /\ e.ip = 0) /\ ~isBot(e.ua)
          [] e.fault = "views_by_ip" ->
               e.fallback \notin {InvalidInput, BotIgnored, AlreadyViewed}
          [] e.fault = "views_by_user" ->
               /\ e.user # NoUserID
               /\ e.fallback \notin {InvalidInput, BotIgnored, AlreadyViewed, VelocityLimit}
          [] e.fault \in {"increment", "record"} ->
               e.fallback \notin {InvalidInput, BotIgnored, AlreadyViewed,
                                  VelocityLimit, RotationLimit}
          [] OTHER -> FALSE

\* The store errors TrackBlogView returns.
ViewStoreErrors == {CheckFailed, IncrementFailed, RecordFailed}

\* Task p is at the store call of its toggle that fails.
ToggleFaultMet(p) ==
    \/ pc[p] = "toggle_get" /\ loc[p].fault = "get"
    \/ pc[p] = "toggle_dislikes" /\ loc[p].fault \in {"count_likes", "count_dislikes"}
    \/ pc[p] = "toggle_blog" /\ loc[p].fault = "read_blog"
    \/ pc[p] = "toggle_update" /\ loc[p].fault = "update_blog"

\* C24: every durable-store failure met by TrackBlogView, ToggleLike or
\* ToggleDislike, other than the popularity refresh after a counted view,
\* makes the operation return an error and stops it before any later step:
\* a view call whose store call failed ends with a store error, and a toggle
\* whose store call failed ends there with an error answer.
C24_StoreFailureAborts ==
    /\ [](\A i \in Calls : ViewFaultMet(i) => viewLog[i].fallback \in ViewStoreErrors)
    /\ [][\A p \in Tasks :
            (ToggleFaultMet(p) /\ pc'[p] # pc[p]) =>
                (pc'[p] = "idle" /\ ret'[p] \notin Handled \cup {"none"})]_vars

\* ------------------------------------------------------------ mixed traffic
\* View tracking, reaction toggles and blog writes on blog 1, interleaving at
\* the store calls of the view and reaction requests; the blog writes touch
\* no counter after the insert and are served in one step. Blog 1 exists at
\* start or is created in the run.
NextMixed ==
    \/ \E p \in Tasks : CreateBlog(p, Title1, 1, BlogStatusPublished, "none")
    \/ \E p \in Tasks : UpdateBlog(p, 1, 1, Title2, NoStatus, "none")
    \/ \E p \in Tasks : DeleteBlog(p, 1, 1, FALSE, "none")
    \/ \E p \in Tasks, u \in Users : LikeBlogHandler(p, u, 1, "none")
    \/ \E p \in Tasks, u \in Users, b \in {1, ShortBlogID} : DislikeBlogHandler(p, u, b, "none")
    \/ \E p \in Tasks : InvalidBlogIDFormat(p)
    \/ \E p \in Tasks : ExistsBlog(p)
    \/ \E p \in Tasks : ToggleGetReaction(p)
    \/ \E p \in Tasks : ToggleWrite(p)
    \/ \E p \in Tasks : ToggleCountLikes(p)
    \/ \E p \in Tasks : ToggleCountDislikes(p)
    \/ \E p \in Tasks : ToggleReadBlog(p)
    \/ \E p \in Tasks : ToggleUpdateBlog(p)
    \/ \E p \in Tasks : HandlerGetUserReaction(p)
    \/ \E p \in Tasks, v \in RaceViewers : TrackBlogViewRequest(p, 1, v.user, v.ip, Browser)
    \/ \E p \in Tasks : ViewCheck(p)
    \/ \E p \in Tasks : ViewVelocity(p)
    \/ \E p \in Tasks : ViewRotation(p)
    \/ \E p \in Tasks : ViewIncrement(p)
    \/ \E p \in Tasks : ViewRecord(p)
    \/ \E p \in Tasks : ViewCounts(p)
    \/ \E p \in Tasks : ViewPopularity(p)

InitMixed ==
    /\ blogs \in {[b \in {1} |-> NoBlog],
                  [b \in {1} |-> [NewBlog EXCEPT !.title = Title1,
                                                 !.slug = [base |-> Slugify(Title1), uuid |-> 1]]]}
    /\ likes = {}
    /\ nextUUID = 2
    /\ toggles = <<>>
    /\ InitViewVars({1}, {1, 2}, {1})
    /\ InitTasks({1, 2}, MaxMixedCalls)
    /\ InitNoCache

SpecMixed == InitMixed /\ [][NextMixed]_vars

\* C17: in every reachable state, after any sequence and interleaving of view
\* tracking, reaction toggles and blog create/update/delete, each blog's
\* stored viewCount, likeCount, dislikeCount and commentCount are all >= 0.
C17_CountersNonNegative ==
    \A b \in DOMAIN blogs :
        /\ blogs[b].viewCount >= 0
        /\ blogs[b].likeCount >= 0
        /\ blogs[b].dislikeCount >= 0
        /\ blogs[b].commentCount >= 0

\* Blog 1 was liked and unliked: its like count is back at 0.
C17_Witness ==
    /\ AllIdle
    /\ callsLeft = 0
    /\ ret[1] = Unliked
    /\ blogs[1].likeCount = 0
    /\ \E r \in likes : r.target = 1 /\ r.type = LIKE_TYPE_LIKE /\ r.deleted

\* Task p is serving a dislike request and has not answered it yet.
DislikeArrived(p) ==
    pc[p] \in {"exists_blog", "bad_request"} /\ loc[p].op = LIKE_TYPE_DISLIKE

\* Task p is about to check the target of a dislike request.
ChecksTarget(p) == pc[p] = "exists_blog" /\ loc[p].op = LIKE_TYPE_DISLIKE

\* Task p enters ToggleDislike in this step.
EntersToggleDislike(p) ==
    pc[p] # "toggle_get" /\ pc'[p] = "toggle_get" /\ loc'[p].op = LIKE_TYPE_DISLIKE

\* The step of task p answers its request with message and changes neither
\* the reaction table nor the blogs.
AnswersUnchanged(p, message) ==
    /\ pc'[p] = "idle"
    /\ ret'[p] = message
    /\ likes' = likes
    /\ blogs' = blogs

\* C18 as stated: a dislike request for a blog id that does not exist in the
\* store, or is soft-deleted, is answered with 'Blog not found' and changes
\* neither the reaction table nor any blog counter.
C18_DislikeMissingTarget ==
    [][\A p \in Tasks :
          (DislikeArrived(p) /\ pc'[p] # pc[p] /\ ~BlogMatches(blogs, loc[p].target)) =>
              AnswersUnchanged(p, "Blog not found")]_vars

\* C18: a dislike request for a blog id of 36 characters that does not exist
\* in the store, or is soft-deleted, is answered with 'Blog not found'; one
\* for an id of another length is answered 'Invalid blog ID format'. Neither
\* changes the reaction table or any blog counter: the target's existence is
\* checked before ToggleDislike runs.
C18_DislikeChecksTarget ==
    [][\A p \in Tasks :
          /\ (ChecksTarget(p) /\ pc'[p] # pc[p] /\ ~BlogMatches(blogs, loc[p].target)) =>
                AnswersUnchanged(p, "Blog not found")
          /\ (DislikeArrived(p) /\ pc'[p] # pc[p] /\ ~ValidBlogIDFormat(loc[p].target)) =>
                AnswersUnchanged(p, "Invalid blog ID format")
          /\ EntersToggleDislike(p) =>
                (ChecksTarget(p) /\ BlogMatches(blogs, loc[p].target))]_vars

\* A dislike of blog 1 after its soft delete was answered 'Blog not found'.
C18_Witness ==
    \E p \in Tasks :
        /\ ret[p] = "Blog not found"
        /\ blogs[1].present
        /\ blogs[1].isDeleted

\* ------------------------------------------------------ read-cache claims
\* The last call was an UpdateBlog that succeeded, changed the title, and
\* found the blog's detail cached under its slug of before.
RetitledCached(did) ==
    did.op = "UpdateBlog" /\ did.ok /\ did.titled /\ did.wasCached

\* C8: after UpdateBlog succeeds with a title change on a blog whose detail
\* was cached under the old slug, the cache holds no detail entry for the old
\* slug, and a GetBlogDetail by the old slug that comes next misses the cache
\* and goes to the store.
C8_OldSlugInvalidated ==
    /\ RetitledCached(lastOp) => lastOp.slug \notin DOMAIN detail
    /\ (/\ lastOp.op = "GetBlogDetail"
        /\ RetitledCached(lastOp.prev)
        /\ lastOp.slug = lastOp.prev.slug)
       => ~lastOp.hit /\ lastOp.storeRead

C8_Witness ==
    /\ lastOp.op = "GetBlogDetail"
    /\ RetitledCached(lastOp.prev)
    /\ lastOp.slug = lastOp.prev.slug
    /\ ~lastOp.hit

\* C9: when CreateBlog, UpdateBlog or DeleteBlog has persisted its change and
\* returned, the cache holds no list page and no detail entry for the blog's
\* current slug.
C9_WritesInvalidate ==
    (lastOp.op \in {"CreateBlog", "UpdateBlog", "DeleteBlog"} /\ lastOp.persisted)
    => /\ DOMAIN lists = {}
       /\ blogs[lastOp.blog].slug \notin DOMAIN detail

\* C12: no detail cache entry holds a payload whose status is draft, and a
\* GetBlogDetail that returns a blog returns one whose status is published or
\* archived and, when it was read from the durable store, not soft-deleted.
C12_NoDraftServed ==
    /\ \A k \in DOMAIN detail : detail[k].value.status # BlogStatusDraft
    /\ (lastOp.op = "GetBlogDetail" /\ lastOp.result.err = "") =>
          /\ lastOp.result.blog.present
          /\ lastOp.result.blog.status \in {BlogStatusPublished, BlogStatusArchived}
          /\ lastOp.storeRead => ~lastOp.result.blog.isDeleted

\* A stored draft was asked for by its slug: the call answered "blog not
\* found" after reading the store and cached nothing under the slug.
C12_Witness ==
    /\ lastOp.op = "GetBlogDetail"
    /\ lastOp.storeRead
    /\ lastOp.result.err = "blog not found"
    /\ \E b \in DOMAIN blogs :
          /\ blogs[b].present /\ ~blogs[b].isDeleted
          /\ blogs[b].status = BlogStatusDraft
          /\ blogs[b].slug = lastOp.slug
    /\ lastOp.slug \notin DOMAIN detail

Reads == {"GetBlogDetail", "GetBlogs"}

\* C13: with a cache whose every call returns an error, GetBlogDetail and
\* GetBlogs return, for the same input on the same store, exactly the value
\* or error they return with no cache configured.
C13_DegradedAsUncached ==
    lastOp.op \in Reads => lastOp.degraded = lastOp.uncached

\* A GetBlogs and then a GetBlogDetail answered from the working cache, both
\* answered with a blog by the deployment whose cache errors.
C13_Witness ==
    /\ lastOp.prev.op = "GetBlogs"
    /\ lastOp.prev.degraded.err = ""
    /\ lastOp.prev.degraded.page.blogs # {}
    /\ lastOp.op = "GetBlogDetail"
    /\ lastOp.hit
    /\ lastOp.degraded.err = ""
    /\ lastOp.degraded.blog.present

\* GetBlogsHandler: the page and pageSize parameters go to GetBlogs as
\* parsed; the request's query is kept in the record of the run.
GetBlogsHandler(p, page, pageSize) ==
    /\ Arrives(p)
    /\ \E r \in {GetBlogsUC(Site, "ok", now, page, pageSize, "none")} :
          Serve(p, [r EXCEPT !.did.query = Query(page, pageSize, now)])

\* List runs: published blogs are created and pages are asked for, with
\* page numbers and page sizes below 1 too, while the list entries may expire.
NextListCache ==
    \/ \E p \in Tasks : CreateBlog(p, Title1, 1, BlogStatusPublished, "none")
    \/ \E p \in Tasks, page \in {0 - 1, 0, 1, 2}, pageSize \in {0, 1, 10} :
          GetBlogsHandler(p, page, pageSize)
    \/ Tick(CacheTick, MaxCacheTicks * CacheTick)

InitListCache ==
    /\ blogs = [b \in 1..MaxBlogs |-> NoBlog]
    /\ likes = {}
    /\ nextUUID = 1
    /\ toggles = <<>>
    /\ InitTasks({1}, MaxListCalls)
    /\ InitNoViewTraffic
    /\ InitNoCache

SpecListCache == InitListCache /\ [][NextListCache]_vars

\* The last two calls were GetBlogs calls with the same query; the first
\* missed the cache and populated it, and the second came before that entry
\* expired.
RepeatsListQuery ==
    /\ lastOp.op = "GetBlogs"
    /\ lastOp.prev.op = "GetBlogs"
    /\ lastOp.query.page = lastOp.prev.query.page
    /\ lastOp.query.size = lastOp.prev.query.size
    /\ ~lastOp.prev.hit
    /\ lastOp.prev.ok
    /\ lastOp.query.at < lastOp.prev.query.at + listTTL

\* C25: for every list query, including page < 1 and pageSize < 1, if a
\* GetBlogs call misses the cache and populates it, then an identical
\* GetBlogs call made before the entry expires, with a working cache and no
\* blog mutation in between, is a cache hit that returns the same blogs and
\* total without reading the store.
C25_RepeatedListQueryHits ==
    RepeatsListQuery =>
        /\ lastOp.hit
        /\ ~lastOp.storeRead
        /\ lastOp.result.page = lastOp.prev.result.page

\* ------------------------- blog reads and writes, one store or cache call a step
\* GetBlogDetail, UpdateBlog and DeleteBlog as above with a working cache,
\* taken one store or cache call at a time so that concurrent requests
\* interleave; the invalidations at the end of a write are one step.
GetBlogDetailRequest(p, slug) ==
    /\ IF slug = NoSlug
       THEN /\ Arrives(p)
            /\ callsLeft' = callsLeft - 1
            /\ ret' = [ret EXCEPT ![p] = "slug is required"]
            /\ UNCHANGED <<pc, loc, reaction>>
       ELSE Accept(p, "detail_cache", [IdleLoc EXCEPT !.op = "detail", !.slug = slug])
    /\ UNCHANGED <<blogs, likeVars, viewVars, cacheVars>>

\* "Cache first": blogCache.GetBlogBySlug.
DetailCacheGet(p) ==
    /\ pc[p] = "detail_cache"
    /\ LET cached == CacheGetBlogBySlug(detail, loc[p].slug, now)
       IN IF CacheHit("ok", FALSE, cached.found) /\ Visible(cached.blog)
          THEN Return(p, "ok")
          ELSE Goto(p, "detail_store", loc[p])
    /\ UNCHANGED <<blogs, likeVars, viewVars, cacheVars>>

\* blogRepo.GetBlogBySlug and the checks on what it found.
DetailStoreGet(p) ==
    /\ pc[p] = "detail_store"
    /\ LET got == GetBlogBySlug(blogs, loc[p].slug)
       IN IF got.err THEN Return(p, "failed to get blog: not found or has been deleted")
          ELSE IF got.blog.isDeleted \/ ~Visible(got.blog) THEN Return(p, "blog not found")
          ELSE Goto(p, "detail_set", [loc[p] EXCEPT !.blog = got.blog])
    /\ UNCHANGED <<blogs, likeVars, viewVars, cacheVars>>

\* "Set cache on successful DB fetch".
DetailCacheSet(p) ==
    /\ pc[p] = "detail_set"
    /\ detail' = SetBlogBySlug(detail, loc[p].slug, loc[p].blog, now)
    /\ Return(p, "ok")
    /\ UNCHANGED <<blogs, likeVars, viewVars, lists, lastOp>>

\* The updates map of UpdateBlog for a title and a status (nil: NoTitle,
\* NoStatus); uuid is the one appended to the new slug.
Updates(title, status, uuid) ==
    [f \in (IF title # NoTitle THEN {"title", "slug"} ELSE {})
           \cup (IF status # NoStatus THEN {"status"} ELSE {}) |->
        CASE f = "title" -> title
          [] f = "slug" -> [base |-> Slugify(title), uuid |-> uuid]
          [] f = "status" -> status]

UpdateBlogRequest(p, b, authorID, title, status) ==
    /\ Accept(p, "update_get",
              [IdleLoc EXCEPT !.op = "update", !.target = b, !.user = authorID,
                              !.title = title, !.status = status])
    /\ UNCHANGED <<blogs, likeVars, viewVars, cacheVars>>

\* "Get existing blog" and the author check.
UpdateGet(p) ==
    /\ pc[p] = "update_get"
    /\ LET l == loc[p]
           got == GetBlogByID(blogs, l.target)
       IN IF got.err THEN Return(p, "failed to get blog")
          ELSE IF got.blog.author # l.user
          THEN Return(p, "unauthorized: only the author can update this blog")
          ELSE Goto(p, IF DOMAIN Updates(l.title, l.status, 0) # {}
                       THEN "update_store" ELSE "update_reread",
                    [l EXCEPT !.slug = got.blog.slug])
    /\ UNCHANGED <<blogs, likeVars, viewVars, cacheVars>>

\* blogRepo.UpdateBlog with the updates map.
UpdateStore(p) ==
    /\ pc[p] = "update_store"
    /\ LET l == loc[p]
           wrote == UpdateBlogRepo(blogs, l.target, Updates(l.title, l.status, nextUUID))
       IN /\ nextUUID' = IF l.title # NoTitle THEN nextUUID + 1 ELSE nextUUID
          /\ blogs' = wrote.blogs
          /\ IF wrote.err THEN Return(p, "failed to update blog")
             ELSE Goto(p, "update_reread", l)
    /\ UNCHANGED <<likes, toggles, viewVars, cacheVars>>

\* "Return updated blog": the second GetBlogByID.
UpdateReread(p) ==
    /\ pc[p] = "update_reread"
    /\ LET reread == GetBlogByID(blogs, loc[p].target)
       IN IF reread.err THEN Return(p, "failed to get updated blog")
          ELSE Goto(p, "update_invalidate", [loc[p] EXCEPT !.blog = reread.blog])
    /\ UNCHANGED <<blogs, likeVars, viewVars, cacheVars>>

\* "Invalidate caches after update".
UpdateInvalidate(p) ==
    /\ pc[p] = "update_invalidate"
    /\ LET S == InvalidateAfterUpdate(Site, loc[p].slug, loc[p].blog.slug)
       IN detail' = S.detail /\ lists' = S.lists
    /\ Return(p, "ok")
    /\ UNCHANGED <<blogs, likeVars, viewVars, lastOp>>

DeleteBlogRequest(p, b, userID, isAdmin) ==
    /\ Accept(p, "delete_get",
              [IdleLoc EXCEPT !.op = "delete", !.target = b, !.user = userID,
                              !.admin = isAdmin])
    /\ UNCHANGED <<blogs, likeVars, viewVars, cacheVars>>

\* GetBlogByID and "Check authorization".
DeleteGet(p) ==
    /\ pc[p] = "delete_get"
    /\ LET l == loc[p]
           got == GetBlogByID(blogs, l.target)
       IN IF got.err THEN Return(p, "failed to get blog")
          ELSE IF ~l.admin /\ got.blog.author # l.user
          THEN Return(p, "unauthorized: only the author or admin can delete this blog")
          ELSE Goto(p, "delete_store", [l EXCEPT !.slug = got.blog.slug])
    /\ UNCHANGED <<blogs, likeVars, viewVars, cacheVars>>

\* blogRepo.DeleteBlog.
DeleteStore(p) ==
    /\ pc[p] = "delete_store"
    /\ LET deleted == DeleteBlogRepo(blogs, loc[p].target)
       IN /\ blogs' = deleted.blogs
          /\ IF deleted.err THEN Return(p, "failed to delete blog")
             ELSE Goto(p, "delete_invalidate", loc[p])
    /\ UNCHANGED <<likeVars, viewVars, cacheVars>>

\* "Invalidate caches after delete".
DeleteInvalidate(p) ==
    /\ pc[p] = "delete_invalidate"
    /\ lists' = InvalidateBlogLists(lists)
    /\ detail' = InvalidateBlogBySlug(detail, loc[p].slug)
    /\ Return(p, "ok")
    /\ UNCHANGED <<blogs, likeVars, viewVars, lastOp>>

\* Concurrent readers and writers of one published blog.
NextCacheRace ==
    \/ \E p \in Tasks, slug \in Slugs \cup {NoSlug} : GetBlogDetailRequest(p, slug)
    \/ \E p \in Tasks : DetailCacheGet(p)
    \/ \E p \in Tasks : DetailStoreGet(p)
    \/ \E p \in Tasks : DetailCacheSet(p)
    \/ \E p \in Tasks, authorID \in Authors, title \in {NoTitle, Title2},
          status \in {NoStatus, BlogStatusDraft} :
          UpdateBlogRequest(p, 1, authorID, title, status)
    \/ \E p \in Tasks : UpdateGet(p)
    \/ \E p \in Tasks : UpdateStore(p)
    \/ \E p \in Tasks : UpdateReread(p)
    \/ \E p \in Tasks : UpdateInvalidate(p)
    \/ \E p \in Tasks, c \in Callers : DeleteBlogRequest(p, 1, c.id, c.admin)
    \/ \E p \in Tasks : DeleteGet(p)
    \/ \E p \in Tasks : DeleteStore(p)
    \/ \E p \in Tasks : DeleteInvalidate(p)

\* The site after CreateBlog of a published blog, nothing cached yet.
InitCacheRace ==
    /\ \E r \in {CreateBlogUC([blogs |-> [b \in 1..MaxBlogs |-> NoBlog], detail |-> <<>>,
                               lists |-> <<>>, nextUUID |-> 1],
                              0, 1, Title1, 1, BlogStatusPublished, "none")} :
          /\ blogs = r.site.blogs
          /\ nextUUID = r.site.nextUUID
    /\ likes = {}
    /\ toggles = <<>>
    /\ InitTasks(Procs, MaxRaceCalls)
    /\ InitNoViewTraffic
    /\ InitNoCache

SpecCacheRace == InitCacheRace /\ [][NextCacheRace]_vars

\* Every live detail entry is the stored document of its slug.
DetailFresh ==
    \A slug \in DOMAIN detail :
        Live(detail, slug, now) =>
            LET got == GetBlogBySlug(blogs, slug)
            IN  ~got.err /\ detail[slug].value = got.blog

\* C27: in every interleaving of GetBlogDetail reads with UpdateBlog and
\* DeleteBlog calls on the same blog, once every call has returned, the
\* cache holds no detail entry for a slug or the entry equals the stored,
\* not deleted blog of that slug.
C27_NoStaleDetail == AllIdle => DetailFresh

\* ------------------------------------------- view tracking without a cache
\* The deployment main builds when REDIS_URL is not set: SetBlogCache is
\* never called and blogCache stays nil. The same request is also served by
\* the shadow deployment, whose cache client errors on every call.
TrackBlogViewHandlerNoCache(p, blogID, userID, ip, userAgent) ==
    /\ pc[p] = "idle"
    /\ callsLeft > 0
    /\ \E r \in {TrackBlogView(World, "nil", "none", now, blogID, userID, ip, userAgent)},
          f \in {TrackBlogView(shadow, "err", "none", now, blogID, userID, ip, userAgent)} :
           /\ blogs' = r.world.blogs
           /\ views' = r.world.views
           /\ ipSets' = r.world.ipSets
           /\ userSets' = r.world.userSets
           /\ shadow' = f.world
           /\ ret' = [ret EXCEPT ![p] = r.out]
           /\ viewLog' = Append(viewLog,
                [blog |-> blogID, user |-> userID, ip |-> ip, ua |-> userAgent,
                 at |-> now, fault |-> "none", out |-> r.out, fallback |-> f.out,
                 vcBefore |-> blogs[blogID].viewCount,
                 vcAfter |-> r.world.blogs[blogID].viewCount,
                 nvBefore |-> Cardinality(views),
                 nvAfter |-> Cardinality(r.world.views)])
    /\ callsLeft' = callsLeft - 1
    /\ UNCHANGED <<pc, loc, reaction, now, likeVars, cacheVars>>

\* One IP address views blog 1, blog 2, ... in turn, as in the velocity runs.
NextNoCache ==
    \/ \E p \in Tasks, c \in Clients :
          TrackBlogViewHandlerNoCache(p, Len(viewLog) + 1, c.user, 1, c.ua)
    \/ Tick(VelocityTick, MaxVelocityTicks * VelocityTick)

SpecNoCache == InitVelocity /\ [][NextNoCache]_vars

\* C28: with no cache client configured, when one address views 11 distinct
\* blogs in less than 5 minutes, calls 1..10 are counted and call 11 is
\* rejected with the velocity-limit error from the stored view records.
C28_VelocityLimitWithoutCache ==
    (BurstDone /\ BurstSpan < ipVelocityTTL) =>
        /\ \A i \in 1..maxIpVelocity : viewLog[i].out = Counted
        /\ viewLog[maxIpVelocity + 1].out = VelocityLimit
        /\ blogs[maxIpVelocity + 1].viewCount = 0

\* The view documents stored for blog b.
ViewRecords(b) == {v \in views : v.blog = b}

\* C29: whenever no TrackBlogView call is in progress, also in runs where
\* single store calls fail, each blog's viewCount is the number of view
\* documents stored for it.
C29_ViewCountMatchesRecords ==
    AllIdle => \A b \in DOMAIN blogs : blogs[b].viewCount = Cardinality(ViewRecords(b))

\* The call of log entry e got as far as the velocity step: it has an
\* identifier, is not a bot's, and the recency check ran and found nothing.
ReachesVelocity(e) == e.out \notin {InvalidInput, BotIgnored, CheckFailed, AlreadyViewed}

\* The time of the last call from address ip that reached the velocity step.
LastReach(ip) ==
    MaxOf({viewLog[i].at : i \in {j \in Calls : viewLog[j].ip = ip /\ ReachesVelocity(viewLog[j])}})

\* C30: with the working cache, a TrackBlogView call that reaches the
\* velocity step, whether it is then counted, rejected or fails, leaves its
\* blog in the address's window set with the expiry 5 minutes after the
\* call, and is rejected for velocity exactly when the set with its blog
\* has more than 10 members; a window set becomes empty only 5 minutes or
\* more after the last such call from its address, and until then it loses
\* no member.
C30_WindowSetRefreshed ==
    [][/\ ViewServed =>
            LET e == viewLog'[Len(viewLog')]
                after == LiveMembers(ipSets', e.ip, now)
            IN  ReachesVelocity(e) =>
                   /\ e.blog \in after
                   /\ ipSets'[e.ip].exp = e.at + ipVelocityTTL
                   /\ (e.out = VelocityLimit) <=> (Cardinality(after) > maxIpVelocity)
       /\ \A ip \in DOMAIN ipSets :
            LET before == LiveMembers(ipSets, ip, now)
                after == LiveMembers(ipSets', ip, now')
            IN  IF after = {}
                THEN before # {} => now' >= LastReach(ip) + ipVelocityTTL
                ELSE before \subseteq after]_vars

\* A view was rejected for velocity, its blog is in the window set, whose
\* expiry was set by that call, and the set has since expired.
C30_Witness ==
    /\ viewLog # <<>>
    /\ LastView.out = VelocityLimit
    /\ LastView.blog \in ipSets[LastView.ip].members
    /\ ipSets[LastView.ip].exp = LastView.at + ipVelocityTTL
    /\ now >= ipSets[LastView.ip].exp

====
